---- MODULE Spec2Model ----
(***************************************************************************)
(* A model of the scrape orchestration of proboards-scraper: run_scraper   *)
(* and _task_wrapper (core.py), ScraperManager.run and insert_guest        *)
(* (scraper_manager.py), the traversal functions of scraper.py and the     *)
(* insert methods of database/database.py.                                 *)
(*                                                                         *)
(* One step of a task is one statement group of its coroutine.  A put on   *)
(* an unbounded asyncio.Queue never suspends, so the steps are at least as *)
(* fine as the real suspension points (the page fetches and downloads).    *)
(***************************************************************************)
EXTENDS Integers, Sequences, FiniteSets, TLC

VARIABLES
    target,          \* the class of the URL given to run_scraper
    t1,              \* what the pages of thread 1 hold (the varied input)
    loop,            \* "running" | "stopped": run_until_complete's event loop
    raised,          \* an exception reached asyncio.gather
    user_queue_set,  \* manager.user_queue is not None
    user_queue,      \* manager.user_queue
    content_queue,   \* manager.content_queue
    cpc,             \* ScraperManager.run: position of the consumer
    all_users_added, \* ScraperManager.run: the flag of the users loop
    session_closed,  \* number of client_session.close() calls
    driver_quit,     \* driver.quit() was called
    driver,          \* ScraperManager.driver (None: <<>>, a webdriver: <<"chrome">>)
    upc,             \* position of the users task (_task_wrapper + scrape_users/scrape_user)
    upage,           \* scrape_users: index of the members page being fetched
    member_hrefs,    \* scrape_users: the profile links collected so far
    ppc,             \* scrape_user: position of each profile task
    cwpc,            \* position of the content task (_task_wrapper)
    stack,           \* call stack of the content task (scrape_content/board/thread)
    db,              \* the store: table name -> set of rows
    sent,            \* history: every item put on content_queue, in order
    put_users,       \* history: ids of the User records put on user_queue
    calls,           \* history: the insert calls made by ScraperManager.run
    env_failed,      \* history: a fetch or an extraction failed (input fault)
    failed_at,       \* history: where the first content fault happened
    guest_log,       \* history: the insert_guest calls of the resolver driver
    last_insert,     \* history: the last Database.insert call of the store driver
    downloads,       \* history: how each member's avatar download ended in this run
    first_run,       \* history: the store and the downloads at the end of a first run
    listing,         \* the members listing and the next control of the last pages (input)
    fetches,         \* history: the pages get_source has returned, per task
    request_threshold, \* ScraperManager.request_threshold (None: <<>>, n: <<n>>)
    short_delay_time,  \* ScraperManager.short_delay_time, in tenths of a second
    long_delay_time,   \* ScraperManager.long_delay_time, in tenths of a second
    request_count,   \* ScraperManager.request_count
    rpc,             \* position of each caller of ScraperManager.get_source / download_image
    issued           \* history: the requests the manager's wrappers have issued

vars == << target, t1, loop, raised, user_queue_set, user_queue, content_queue,
           cpc, all_users_added, session_closed, driver_quit, driver, upc, upage,
           member_hrefs, ppc,
           cwpc, stack, db, sent, put_users, calls, env_failed, failed_at,
           guest_log, last_insert, downloads, first_run, listing, fetches,
           request_threshold, short_delay_time, long_delay_time, request_count,
           rpc, issued >>

(***************************************************************************)
(* Bounds of the model.                                                    *)
(***************************************************************************)
MaxPages == 2
MaxPostsPerPage == 3
MaxCalls == 4
MaxFetches == 4
MaxRequests == 4
MaxImages == 4
MaxFeed == 2

(***************************************************************************)
(* The site that is scraped (the input).                                   *)
(***************************************************************************)
Null == "null"

\* The URL given to run_scraper, by the branch of core.py lines 132-159 its
\* path takes ("other": a path that none of the branches matches).
Targets ==
    {"home", "home_skip", "members", "user", "board", "thread", "other"}

\* A next control: whether its <a> carries an href, and whether its <li> has
\* the class state-disabled.
FollowControl == [link |-> TRUE, disabled |-> FALSE]

\* The control of a last page as the site renders it.
EndControl == [link |-> FALSE, disabled |-> TRUE]

\* The other ways a last page can mark its end.
LastControls ==
    {EndControl, [link |-> FALSE, disabled |-> FALSE],
     [link |-> TRUE, disabled |-> TRUE]}

\* The three kinds of listing: the members list, a board's thread list and a
\* thread's post list.
Listings == {"members", "board", "thread"}

\* Every listing ends as the site renders it.
EndControls == [l \in Listings |-> EndControl]

\* The control on page k of a listing of kind l that has n pages.
PageControl(l, k, n) == IF k < n THEN FollowControl ELSE listing.last[l]

\* The page a followed link leads to (the link of a disabled control leads
\* back to the page it is on).
FollowPage(k, n) == IF k < n THEN k + 1 ELSE k

CanonicalMembers == << <<1>>, <<2>> >>

\* The members listing: the profile ids linked from each page.
MemberPages == listing.mpages

Members ==
    UNION {{MemberPages[k][i] : i \in DOMAIN MemberPages[k]} :
             k \in DOMAIN MemberPages}

UserName(u) == IF u = 1 THEN "Bob" ELSE "Carol"

\* The names the resolver driver draws from: guests, one of them ("Bob")
\* sharing the display name of a registered user.
GuestNames == {"Anon", "Bob", "Eve"}

RegisteredNames == {"Bob", "Carol"}

Smileys == << [url |-> "s1", md5_hash |-> "h1"] >>

AvatarUrl(m) == IF m = 1 THEN "a1" ELSE "a2"

AvatarHash(m) == "ha"

\* Whether the avatar is served by the site itself ("proboards.com" in url).
AvatarOnSite(m) == m = 1

ShoutboxPosts == << [id |-> 1, user_id |-> 1] >>

Categories == <<1>>

CategoryBoards(c) == <<1, 4>>

SubBoards(b) == IF b = 1 THEN <<2>> ELSE IF b = 2 THEN <<3>> ELSE <<>>

\* The parent board in the navigation tree (0: none, the board is top-level).
NavParent(b) == IF b = 2 THEN 1 ELSE IF b = 3 THEN 2 ELSE 0

NavCategory(b) == 1

BoardModerators(b) == IF b = 1 THEN <<2>> ELSE <<>>

PasswordProtected(b) == b = 4

\* The thread listing pages of a board (no thread container: no page).
ThreadPages(b) == IF b = 1 THEN << <<1>>, <<2>> >> ELSE <<>>

ThreadBoard(t) == 1

\* metadata["created_by"]: 0 for a thread started by a guest.
CreatedBy(t) == IF t = 1 THEN t1.creator ELSE 2

IsPoll(t) == IF t = 1 THEN t1.poll ELSE FALSE

PollOptions(t) == <<11, 12>>

PollVoters(t) == <<1>>

\* Number of posts on each post page of a thread.
Layout(t) == IF t = 1 THEN t1.layout ELSE <<1>>

RECURSIVE SumTo(_, _)
SumTo(s, k) == IF k = 0 THEN 0 ELSE s[k] + SumTo(s, k - 1)

\* The post ids on page k of thread t, in page order.
PagePosts(t, k) ==
    [i \in 1..Layout(t)[k] |-> 100 * t + SumTo(Layout(t), k - 1) + i]

\* The next control of page k is marked disabled on the last page only.
NextDisabled(t, k) == PageControl("thread", k, Len(Layout(t))).disabled

\* The guest display name in a post's left panel ("" for a registered author).
PostGuest(p) ==
    IF p = 101 \/ p = 104 THEN "Anon" ELSE IF p = 103 THEN "Bob" ELSE ""

PostUser(p) == IF p = 102 THEN 1 ELSE 2

RECURSIVE AllPosts(_, _)
AllPosts(t, k) ==
    IF k = 0 THEN <<>> ELSE AllPosts(t, k - 1) \o PagePosts(t, k)

AllLayouts ==
    UNION {[1..n -> 0..MaxPostsPerPage] : n \in 1..MaxPages}

(***************************************************************************)
(* database/database.py                                                    *)
(***************************************************************************)
Tables == {"user", "category", "board", "moderator", "thread", "post", "poll",
           "poll_option", "poll_voter", "shoutbox_post", "image", "avatar"}

EmptyDb == [t \in Tables |-> {}]

\* Mutant of MinOf: the largest element is taken.
MinOf_Largest(S) == CHOOSE x \in S : \A y \in S : x >= y

MinOf(S) == CHOOSE x \in S : \A y \in S : x <= y

MaxOf(S) == CHOOSE x \in S : \A y \in S : x >= y

\* Mutant of Query: the lookup never finds a row.
Query_None(store, tbl, filters) == {}

\* session.query(Metaclass).filter_by(**filters): the rows that match.
Query(store, tbl, filters) ==
    {r \in store[tbl] : \A k \in DOMAIN filters : r[k] = filters[k]}

\* The image table's id is assigned by the store when the row is added.
Stored(store, tbl, obj) ==
    IF tbl = "image"
    THEN [obj EXCEPT !.id = MaxOf({0} \cup {r.id : r \in store["image"]}) + 1]
    ELSE obj

\* Mutant of Overwritten: the stored row is replaced by the candidate, so a
\* column the candidate does not set becomes null.
Overwritten_Replaces(tbl, first, obj) == obj

\* Lines 214-216: setattr(result, attr, val) for every public attribute in
\* vars(obj), which holds the attributes the candidate was constructed with
\* (a row is a function on its non-null columns; the id of an Image is
\* assigned by the store and is not among the candidate's attributes).
Overwritten(tbl, first, obj) ==
    [k \in DOMAIN first \cup DOMAIN obj |->
        IF k \in DOMAIN obj /\ ~(tbl = "image" /\ k = "id")
        THEN obj[k] ELSE first[k]]

\* Mutant of insert: a matching row is overwritten whether update is set or
\* not.
insert_AlwaysUpdates(store, tbl, obj, filters, update) ==
    LET result == {r \in store[tbl] : \A k \in DOMAIN filters : r[k] = filters[k]}
    IN IF result = {}
       THEN [inserted |-> 1, ret |-> obj,
             db |-> [store EXCEPT ![tbl] = @ \cup {obj}]]
       ELSE LET first == CHOOSE r \in result : TRUE IN
            [inserted |-> 2, ret |-> obj,
             db |-> [store EXCEPT ![tbl] = (@ \ {first}) \cup {obj}]]

\* Database.insert: <<inserted, ret, store after the call>>.
insert(store, tbl, obj, filters, update) ==
    LET result == Query(store, tbl, filters) IN
    IF result = {}
    THEN LET o == Stored(store, tbl, obj) IN
         [inserted |-> 1, ret |-> o,
          db |-> [store EXCEPT ![tbl] = @ \cup {o}]]
    ELSE LET first == CHOOSE r \in result : TRUE IN
         IF update
         THEN LET o == Overwritten(tbl, first, obj) IN
              [inserted |-> 2, ret |-> o,
               db |-> [store EXCEPT ![tbl] = (@ \ {first}) \cup {o}]]
         ELSE [inserted |-> 0, ret |-> first, db |-> store]

\* Mutant of Filters: insert_image passes no filters, so the default filter
\* on id is used.
Filters_ImageById(tbl, obj) ==
    CASE tbl = "moderator" -> [user_id |-> obj.user_id, board_id |-> obj.board_id]
      [] tbl = "poll_voter" -> [poll_id |-> obj.poll_id, user_id |-> obj.user_id]
      [] tbl = "avatar" -> [image_id |-> obj.image_id, user_id |-> obj.user_id]
      [] OTHER -> [id |-> obj.id]

\* The filters each insert_* wrapper passes to Database.insert.
Filters(tbl, obj) ==
    CASE tbl = "moderator" -> [user_id |-> obj.user_id, board_id |-> obj.board_id]
      [] tbl = "poll_voter" -> [poll_id |-> obj.poll_id, user_id |-> obj.user_id]
      [] tbl = "avatar" -> [image_id |-> obj.image_id, user_id |-> obj.user_id]
      [] tbl = "image" -> IF obj.md5_hash # Null
                          THEN [md5_hash |-> obj.md5_hash]
                          ELSE [url |-> obj.url]
      [] OTHER -> [id |-> obj.id]

\* Mutant of insert_row: insert_image looks every image up by its url.
insert_row_ImageByUrl(store, tbl, obj, update) ==
    IF tbl = "image"
    THEN insert(store, tbl, obj, [url |-> obj.url], update)
    ELSE insert(store, tbl, obj, Filters(tbl, obj), update)

\* insert_user, insert_board, ...: the wrappers around Database.insert.
insert_row(store, tbl, obj, update) ==
    insert(store, tbl, obj, Filters(tbl, obj), update)

\* Mutant of GuestQuery: the lookup is not restricted to negative ids.
GuestQuery_AllUsers(store) == store["user"]

\* The existing guests insert_guest looks the name up in (User.id < 0).
GuestQuery(store) == {r \in store["user"] : r.id < 0}

\* Mutant of NewGuestId: the existing guests are not iterated over, so the
\* lowest id stays 0.
NewGuestId_NoLoop(guests) == MinOf({0}) - 1

\* The id insert_guest gives a name that is not among the guests.
NewGuestId(guests) == MinOf({0} \cup {r.id : r \in guests}) - 1

\* Mutant of insert_guest: the name is never looked up, an id is always
\* allocated.
insert_guest_AlwaysNew(store, name) ==
    LET id == MinOf({0} \cup {r.id : r \in store["user"]}) - 1
    IN insert(store, "user", [id |-> id, name |-> name], [id |-> id], FALSE)

\* Database.insert_guest: look the name up among the guests, else allocate.
insert_guest(store, name) ==
    LET guests == GuestQuery(store)
        this_guest == {r \in guests : r.name = name}
        id == IF this_guest # {}
              THEN (CHOOSE r \in this_guest : TRUE).id
              ELSE NewGuestId(guests)
    IN insert(store, "user", [id |-> id, name |-> name], [id |-> id], FALSE)

\* Mutant of manager_insert_guest: the id is computed but no row is stored.
manager_insert_guest_NoStore(store, name) ==
    [db |-> store, id |-> insert_guest(store, name).ret.id]

\* ScraperManager.insert_guest (scraper_manager.py): the id of the guest row.
manager_insert_guest(store, name) ==
    LET g == insert_guest(store, name) IN [db |-> g.db, id |-> g.ret.id]

(***************************************************************************)
(* core.py: run_scraper                                                    *)
(***************************************************************************)
\* users_task is not None
HasUsersTask(tg) == tg \in {"home", "members", "user"}

\* content_task is not None
HasContentTask(tg) == tg \in {"home", "home_skip", "board", "thread"}

\* queue_name given to _task_wrapper for the users task
UsersQueueName(tg) == IF tg = "home" THEN "user" ELSE "both"

Sentinel == [type |-> "None"]

CanonicalLayout == [i \in 1..2 |-> IF i = 1 THEN 2 ELSE 1]

\* What thread 1 holds: every layout of its post pages for a single-thread
\* run, a poll or not and a guest creator (0) or not for the content-only
\* runs; the full-site run scrapes the thread with a poll and two pages.
ThreadInputs(tg) ==
    [poll : IF tg \in {"home_skip", "board", "thread"} THEN BOOLEAN
            ELSE {TRUE},
     creator : IF tg \in {"home_skip", "board", "thread"} THEN {0, 1}
               ELSE {1},
     layout : IF tg = "thread" THEN AllLayouts ELSE {CanonicalLayout}]

Frame(fn, id, pc) ==
    [fn |-> fn, id |-> id, pc |-> pc, i |-> 1, pg |-> 1, cont |-> 1,
     rem |-> TRUE]

FirstFrame(tg) ==
    CASE tg \in {"home", "home_skip"} -> <<Frame("content", 0, "load")>>
      [] tg = "board" -> <<Frame("board", 1, "fetch")>>
      [] tg = "thread" -> <<Frame("thread", 1, "fetch")>>
      [] OTHER -> <<>>

\* The last control of a listing varies in the runs that start at that
\* listing, or at the board that lists the threads.
VariesLast(tg, l) ==
    \/ tg = "members" /\ l = "members"
    \/ tg = "board" /\ l \in {"board", "thread"}
    \/ tg = "thread" /\ l = "thread"

\* The listings vary for the runs that start at a listing.
ListingInputs(tg) ==
    [mpages : IF tg = "members"
              THEN {CanonicalMembers, << <<1, 2>> >>,
                    << <<1>>, <<2>>, <<3>> >>}
              ELSE {CanonicalMembers},
     last : {c \in [Listings -> LastControls] :
               \A l \in Listings : ~VariesLast(tg, l) => c[l] = EndControl}]

NoFetches == [members |-> <<>>, content |-> <<>>]

\* A setting that is None, and a setting that has a value.
None == <<>>

Some(v) == <<v>>

\* ScraperManager.__init__, lines 26-28: the defaults (times in tenths of a
\* second).
DefaultThreshold == 15

DefaultShortDelay == 15

DefaultLongDelay == 200

\* The tasks that may call the manager's wrappers at the same time.
Callers == {1, 2}

Idle == [pc |-> "idle", fn |-> "", seen |-> 0, delay |-> None]

\* The manager as run_scraper builds it without no_delay (core.py lines
\* 113-125, scraper_manager.py lines 81-84).
DefaultLimiter ==
    /\ request_threshold = Some(DefaultThreshold)
    /\ short_delay_time = Some(DefaultShortDelay)
    /\ long_delay_time = Some(DefaultLongDelay)
    /\ request_count = 0
    /\ rpc = [c \in Callers |-> Idle]
    /\ issued = <<>>

Init ==
    /\ target \in Targets
    /\ t1 \in ThreadInputs(target)
    /\ listing \in ListingInputs(target)
    /\ fetches = NoFetches
    /\ loop = "running"
    /\ raised = FALSE
    /\ user_queue_set = HasUsersTask(target)
    /\ user_queue = <<>>
    /\ content_queue = <<>>
    /\ cpc = "start"
    /\ all_users_added = FALSE
    /\ session_closed = 0
    /\ driver_quit = FALSE
    /\ driver = Some("chrome")
    /\ upc = IF target \in {"home", "members"} THEN "list"
             ELSE IF target = "user" THEN "single" ELSE "none"
    /\ upage = 1
    /\ member_hrefs = <<>>
    /\ ppc = [m \in Members |-> IF target = "user" /\ m = 1 THEN "fetch" ELSE "idle"]
    /\ cwpc = IF HasContentTask(target) THEN "run" ELSE "none"
    /\ stack = FirstFrame(target)
    /\ db = EmptyDb
    /\ sent = <<>>
    /\ put_users = {}
    /\ calls = <<>>
    /\ env_failed = FALSE
    /\ failed_at = <<"none", 0>>
    /\ guest_log = <<>>
    /\ last_insert = <<>>
    /\ downloads = [m \in Members |-> "none"]
    /\ first_run = <<>>
    /\ DefaultLimiter

(***************************************************************************)
(* Variable groups                                                         *)
(***************************************************************************)
\* The state of the rate limiter of ScraperManager.
limiterVars ==
    << request_threshold, short_delay_time, long_delay_time, request_count,
       rpc, issued >>

inputVars ==
    << target, t1, user_queue_set, guest_log, last_insert, first_run, listing,
       limiterVars, driver >>

consumerVars == << cpc, all_users_added, session_closed, driver_quit, calls >>

usersVars == << upc, upage, member_hrefs, ppc, put_users, downloads >>

contentVars == << cwpc, stack, sent >>

\* The fault and the fetch histories.
faultVars == << env_failed, failed_at, fetches >>

Running == loop = "running"

Range(s) == {s[i] : i \in DOMAIN s}

\* The row an insert function builds from a queued dict (del content["type"]).
Row(item) == [k \in DOMAIN item \ {"type"} |-> item[k]]

(***************************************************************************)
(* scraper_manager.py: ScraperManager.run (the consumer)                   *)
(***************************************************************************)
\* Mutant of DrainsUsers: the consumer goes straight to the content queue.
DrainsUsers_Never == FALSE

\* Line 190: the users loop is entered only when a user queue is set.
DrainsUsers == user_queue_set

\* Mutant of RunStart: the users loop is entered whether a user queue is set
\* or not.
RunStart_AlwaysUsers ==
    /\ Running
    /\ cpc = "start"
    /\ cpc' = "users"
    /\ UNCHANGED << all_users_added, session_closed, driver_quit, calls >>
    /\ UNCHANGED << inputVars, usersVars, contentVars, faultVars >>
    /\ UNCHANGED << loop, raised, user_queue, content_queue, db >>

\* Lines 190-200: the consumer starts with the users loop or with the
\* content loop.
RunStart ==
    /\ Running
    /\ cpc = "start"
    /\ cpc' = IF DrainsUsers THEN "users" ELSE "content"
    /\ UNCHANGED << all_users_added, session_closed, driver_quit, calls >>
    /\ UNCHANGED << inputVars, usersVars, contentVars, faultVars >>
    /\ UNCHANGED << loop, raised, user_queue, content_queue, db >>

\* Lines 192-198: pop one item of the user queue.
RunUsers ==
    /\ Running
    /\ cpc = "users"
    /\ user_queue # <<>>
    /\ LET user == Head(user_queue) IN
        /\ user_queue' = Tail(user_queue)
        /\ IF user = Sentinel
           THEN /\ all_users_added' = TRUE
                /\ cpc' = "content"
                /\ UNCHANGED << db, calls >>
           ELSE /\ db' = insert_row(db, "user", Row(user), FALSE).db
                /\ calls' = Append(calls, "user")
                /\ UNCHANGED << cpc, all_users_added >>
    /\ UNCHANGED << session_closed, driver_quit >>
    /\ UNCHANGED << inputVars, usersVars, contentVars, faultVars >>
    /\ UNCHANGED << loop, raised, content_queue >>

\* Mutant of RunContent: all_content_added is set after the first item,
\* whatever it is.
RunContent_EndsOnFirst ==
    /\ Running
    /\ cpc = "content"
    /\ content_queue # <<>>
    /\ LET content == Head(content_queue) IN
        /\ content_queue' = Tail(content_queue)
        /\ cpc' = "shutdown"
        /\ IF content = Sentinel
           THEN UNCHANGED << db, calls >>
           ELSE /\ db' = insert_row(db, content.type, Row(content), FALSE).db
                /\ calls' = Append(calls, content.type)
    /\ UNCHANGED << all_users_added, session_closed, driver_quit >>
    /\ UNCHANGED << inputVars, usersVars, contentVars, faultVars >>
    /\ UNCHANGED << loop, raised, user_queue >>

\* Lines 201-224: pop one item of the content queue and dispatch on its type.
RunContent ==
    /\ Running
    /\ cpc = "content"
    /\ content_queue # <<>>
    /\ LET content == Head(content_queue) IN
        /\ content_queue' = Tail(content_queue)
        /\ IF content = Sentinel
           THEN /\ cpc' = "shutdown"
                /\ UNCHANGED << db, calls >>
           ELSE /\ db' = insert_row(db, content.type, Row(content), FALSE).db
                /\ calls' = Append(calls, content.type)
                /\ UNCHANGED cpc
    /\ UNCHANGED << all_users_added, session_closed, driver_quit >>
    /\ UNCHANGED << inputVars, usersVars, contentVars, faultVars >>
    /\ UNCHANGED << loop, raised, user_queue >>

\* Lines 226-227: close the session and quit the driver.
RunShutdown ==
    /\ Running
    /\ cpc = "shutdown"
    /\ session_closed' = session_closed + 1
    /\ IF driver = None
       THEN /\ cpc' = "raised"
            /\ raised' = TRUE
            /\ UNCHANGED driver_quit
       ELSE /\ driver_quit' = TRUE
            /\ cpc' = "done"
            /\ UNCHANGED raised
    /\ UNCHANGED << all_users_added, calls >>
    /\ UNCHANGED << inputVars, usersVars, contentVars, faultVars >>
    /\ UNCHANGED << loop, user_queue, content_queue, db >>

(***************************************************************************)
(* scraper.py: scrape_users and scrape_user (the users task)               *)
(***************************************************************************)
\* Mutant of MembersNext: the next control is never followed.
MembersNext_AlwaysStops(ctl) == "stop"

\* scrape_user_urls, lines 45-48: next_href is the href of the next control's
\* <a> when it has one, whatever the class of its <li>; else None.
MembersNext(ctl) == IF ctl.link THEN "follow" ELSE "stop"

\* Lines 232-240: fetch one members page, collect its links, read its next.
MembersPage ==
    /\ Running
    /\ upc = "list"
    /\ Len(fetches.members) < MaxFetches
    /\ fetches' = [fetches EXCEPT !.members = Append(@, upage)]
    /\ member_hrefs' = member_hrefs \o MemberPages[upage]
    /\ IF MembersNext(PageControl("members", upage, Len(MemberPages))) = "follow"
       THEN upage' = FollowPage(upage, Len(MemberPages)) /\ upc' = "list"
       ELSE upage' = upage /\ upc' = "spawn"
    /\ UNCHANGED << ppc, put_users, downloads >>
    /\ UNCHANGED << inputVars, consumerVars, contentVars, env_failed, failed_at >>
    /\ UNCHANGED << loop, raised, user_queue, content_queue, db >>

\* The fetch of a members page fails: the exception leaves scrape_users.
MembersPageError ==
    /\ Running
    /\ upc = "list"
    /\ upc' = "raised"
    /\ raised' = TRUE
    /\ env_failed' = TRUE
    /\ UNCHANGED << upage, member_hrefs, ppc, put_users, downloads, failed_at, fetches >>
    /\ UNCHANGED << inputVars, consumerVars, contentVars >>
    /\ UNCHANGED << loop, user_queue, content_queue, db >>

\* Lines 245-250: one task per profile link.
CreateTasks ==
    /\ Running
    /\ upc = "spawn"
    /\ ppc' = [m \in Members |->
                 IF m \in Range(member_hrefs) THEN "fetch" ELSE ppc[m]]
    /\ upc' = "wait"
    /\ UNCHANGED << upage, member_hrefs, put_users, downloads >>
    /\ UNCHANGED << inputVars, consumerVars, contentVars, faultVars >>
    /\ UNCHANGED << loop, raised, user_queue, content_queue, db >>

\* Mutant of AllTasksEnded: the sentinel is put without waiting for the tasks.
AllTasksEnded_NoWait == TRUE

\* Line 252: asyncio.wait(tasks) returns once every profile task has ended.
AllTasksEnded == \A m \in Range(member_hrefs) : ppc[m] \in {"done", "failed"}

\* Lines 252-254: wait, put the sentinel, then task.result() re-raises the
\* exception of a failed profile task.
WaitTasks ==
    /\ Running
    /\ upc = "wait"
    /\ AllTasksEnded
    /\ user_queue' = Append(user_queue, Sentinel)
    /\ IF \E m \in Range(member_hrefs) : ppc[m] = "failed"
       THEN upc' = "raised" /\ raised' = TRUE
       ELSE upc' = "wrap_user" /\ raised' = raised
    /\ UNCHANGED << upage, member_hrefs, ppc, put_users, downloads >>
    /\ UNCHANGED << inputVars, consumerVars, contentVars, faultVars >>
    /\ UNCHANGED << loop, content_queue, db >>

\* scrape_user, lines 65-186: the profile page is fetched and parsed.
ProfileFetch(m) ==
    /\ Running
    /\ ppc[m] = "fetch"
    /\ ppc' = [ppc EXCEPT ![m] = "put"]
    /\ UNCHANGED << upc, upage, member_hrefs, put_users, downloads >>
    /\ UNCHANGED << inputVars, consumerVars, contentVars, faultVars >>
    /\ UNCHANGED << loop, raised, user_queue, content_queue, db >>

\* The fetch or the parse of the profile page fails before the put.
ProfileError(m) ==
    /\ Running
    /\ ppc[m] = "fetch"
    /\ ppc' = [ppc EXCEPT ![m] = "failed"]
    /\ env_failed' = TRUE
    /\ UNCHANGED << upc, upage, member_hrefs, put_users, downloads, failed_at, fetches >>
    /\ UNCHANGED << inputVars, consumerVars, contentVars >>
    /\ UNCHANGED << loop, raised, user_queue, content_queue, db >>

\* Mutant of ProfilePut: the task goes on to the avatar without the put.
ProfilePut_Skipped(m) ==
    /\ Running
    /\ ppc[m] = "put"
    /\ ppc' = [ppc EXCEPT ![m] = "avatar"]
    /\ UNCHANGED << upc, upage, member_hrefs, put_users, downloads, user_queue >>
    /\ UNCHANGED << inputVars, consumerVars, contentVars, faultVars >>
    /\ UNCHANGED << loop, raised, content_queue, db >>

\* Line 188: the User record is put on the user queue.
ProfilePut(m) ==
    /\ Running
    /\ ppc[m] = "put"
    /\ user_queue' = Append(user_queue,
                            [type |-> "user", id |-> m, name |-> UserName(m)])
    /\ put_users' = put_users \cup {m}
    /\ ppc' = [ppc EXCEPT ![m] = "avatar"]
    /\ UNCHANGED << upc, upage, member_hrefs, downloads >>
    /\ UNCHANGED << inputVars, consumerVars, contentVars, faultVars >>
    /\ UNCHANGED << loop, raised, content_queue, db >>

\* How the request of download_image can end: an image, a connection
\* error, a timeout, a status other than 200, or bytes that are no image.
DownloadOutcomes == {"ok", "connect_error", "timeout", "status", "invalid"}

\* Mutant of download_image: without the return of the finally clause, the
\* timeout, which no except clause names, leaves the function.
download_image_NoFinally(url, hash, outcome) ==
    [raised |-> outcome = "timeout",
     image |-> [url |-> url,
                md5_hash |-> IF outcome = "ok" THEN hash ELSE Null]]

\* http_requests.download_image, lines 208-267: ret starts with the url and
\* nulls; only a 200 response with image bytes fills the hash in; the
\* 'finally: return ret' returns it whatever was raised.
download_image(url, hash, outcome) ==
    [raised |-> FALSE,
     image |-> [url |-> url,
                md5_hash |-> IF outcome = "ok" THEN hash ELSE Null]]

\* Lines 193-198: download_image returns, with or without a file (an
\* exception out of it would leave scrape_user: line 196 is in no try).
ProfileAvatar(m) ==
    /\ Running
    /\ ppc[m] = "avatar"
    /\ \E outcome \in DownloadOutcomes :
         LET r == download_image(AvatarUrl(m), AvatarHash(m), outcome)
             got == IF r.raised THEN "raised"
                    ELSE IF r.image.md5_hash # Null THEN "insert_hash"
                    ELSE "insert_url"
         IN /\ ppc' = [ppc EXCEPT ![m] = IF r.raised THEN "failed" ELSE got]
            /\ downloads' = [downloads EXCEPT ![m] = got]
    /\ UNCHANGED << upc, upage, member_hrefs, put_users >>
    /\ UNCHANGED << inputVars, consumerVars, contentVars, faultVars >>
    /\ UNCHANGED << loop, raised, user_queue, content_queue, db >>

\* Lines 193-194: the avatar element is missing, after the put.
AvatarError(m) ==
    /\ Running
    /\ ppc[m] = "avatar"
    /\ ppc' = [ppc EXCEPT ![m] = "failed"]
    /\ env_failed' = TRUE
    /\ UNCHANGED << upc, upage, member_hrefs, put_users, downloads, failed_at, fetches >>
    /\ UNCHANGED << inputVars, consumerVars, contentVars >>
    /\ UNCHANGED << loop, raised, user_queue, content_queue, db >>

AvatarImage(m, got) ==
    [id |-> 0, url |-> AvatarUrl(m), description |-> "avatar",
     md5_hash |-> IF got = "insert_hash" THEN AvatarHash(m) ELSE Null]

\* Lines 200-217: insert_image and insert_avatar, straight into the store.
ProfileInsert(m) ==
    /\ Running
    /\ ppc[m] \in {"insert_hash", "insert_url"}
    /\ LET img == insert_row(db, "image", AvatarImage(m, ppc[m]), FALSE)
           avatar == [user_id |-> m, image_id |-> img.ret.id]
       IN db' = insert_row(img.db, "avatar", avatar, FALSE).db
    /\ ppc' = [ppc EXCEPT ![m] = "done"]
    /\ UNCHANGED << upc, upage, member_hrefs, put_users, downloads >>
    /\ UNCHANGED << inputVars, consumerVars, contentVars, faultVars >>
    /\ UNCHANGED << loop, raised, user_queue, content_queue >>

\* core.py line 37 for a /user target: scrape_user returns or raises.
SingleUserEnds ==
    /\ Running
    /\ upc = "single"
    /\ ppc[1] \in {"done", "failed"}
    /\ IF ppc[1] = "failed"
       THEN upc' = "raised" /\ raised' = TRUE
       ELSE upc' = "wrap_user" /\ raised' = raised
    /\ UNCHANGED << upage, member_hrefs, ppc, put_users, downloads >>
    /\ UNCHANGED << inputVars, consumerVars, contentVars, faultVars >>
    /\ UNCHANGED << loop, user_queue, content_queue, db >>

(***************************************************************************)
(* The content task: call stack of scrape_content / scrape_board /         *)
(* scrape_thread                                                           *)
(***************************************************************************)
Top == stack[Len(stack)]

WithTop(f) == [stack EXCEPT ![Len(stack)] = f]

At(fn, pc) ==
    /\ Running
    /\ cwpc = "run"
    /\ stack # <<>>
    /\ Top.fn = fn
    /\ Top.pc = pc

\* The top function returns to its caller (or to _task_wrapper).
Return ==
    /\ stack' = SubSeq(stack, 1, Len(stack) - 1)
    /\ cwpc' = IF Len(stack) = 1 THEN "wrap_user" ELSE cwpc

\* await manager.content_queue.put(item)
Put(item) ==
    /\ content_queue' = Append(content_queue, item)
    /\ sent' = Append(sent, item)

NoPut == UNCHANGED << content_queue, sent >>

\* get_source has returned page pg of the listing of fn id.
Fetched(fn, id, pg) ==
    /\ fetches' = [fetches EXCEPT !.content = Append(@, <<fn, id, pg>>)]
    /\ UNCHANGED << env_failed, failed_at >>

\* An element the parse needs is missing on a page that was fetched.
ParseFails(where, id) ==
    /\ env_failed' = TRUE
    /\ failed_at' = IF failed_at[1] = "none" THEN <<where, id>> ELSE failed_at
    /\ UNCHANGED fetches

\* An exception leaves the content coroutine: nothing in scraper.py or
\* core.py catches it, so it ends _task_wrapper and reaches asyncio.gather.
Raise ==
    /\ cwpc' = "raised"
    /\ raised' = TRUE
    /\ UNCHANGED stack

restOfContent == << inputVars, consumerVars, usersVars, loop, user_queue >>

(***************************************************************************)
(* scraper.py: scrape_content (lines 658-707)                              *)
(***************************************************************************)
\* Lines 667-669: load the homepage.
ContentLoad ==
    /\ At("content", "load")
    /\ stack' = WithTop([Top EXCEPT !.pc = "smileys", !.i = 1])
    /\ NoPut
    /\ UNCHANGED << cwpc, raised, db, faultVars, restOfContent >>

SmileyImage(sm) ==
    [type |-> "image", id |-> 0, url |-> sm.url, description |-> "smiley",
     md5_hash |-> sm.md5_hash]

\* scrape_smileys, lines 643-655.
ScrapeSmileys ==
    /\ At("content", "smileys")
    /\ IF Top.i <= Len(Smileys)
       THEN /\ Put(SmileyImage(Smileys[Top.i]))
            /\ stack' = WithTop([Top EXCEPT !.i = @ + 1])
       ELSE /\ NoPut
            /\ stack' = WithTop([Top EXCEPT !.pc = "shoutbox", !.i = 1])
    /\ UNCHANGED << cwpc, raised, db, faultVars, restOfContent >>

\* scrape_shoutbox, lines 613-634.
ScrapeShoutbox ==
    /\ At("content", "shoutbox")
    /\ IF Top.i <= Len(ShoutboxPosts)
       THEN /\ Put([type |-> "shoutbox_post", id |-> ShoutboxPosts[Top.i].id,
                    user_id |-> ShoutboxPosts[Top.i].user_id])
            /\ stack' = WithTop([Top EXCEPT !.i = @ + 1])
       ELSE /\ NoPut
            /\ stack' = WithTop([Top EXCEPT !.pc = "category", !.i = 1])
    /\ UNCHANGED << cwpc, raised, db, faultVars, restOfContent >>

\* Lines 678-693: the next category block; line 707 after the last one.
ScrapeCategory ==
    /\ At("content", "category")
    /\ IF Top.i <= Len(Categories)
       THEN /\ Put([type |-> "category", id |-> Categories[Top.i]])
            /\ stack' = WithTop([Top EXCEPT !.pc = "boards", !.pg = 1])
       ELSE /\ NoPut
            /\ stack' = WithTop([Top EXCEPT !.pc = "sentinel"])
    /\ UNCHANGED << cwpc, raised, db, faultVars, restOfContent >>

\* Lines 700-705: scrape_board for the next board of the category.
ScrapeCategoryBoards ==
    /\ At("content", "boards")
    /\ LET boards == CategoryBoards(Categories[Top.i]) IN
       IF Top.pg <= Len(boards)
       THEN stack' = Append(WithTop([Top EXCEPT !.pg = @ + 1]),
                            Frame("board", boards[Top.pg], "fetch"))
       ELSE stack' = WithTop([Top EXCEPT !.pc = "category", !.i = @ + 1])
    /\ NoPut
    /\ UNCHANGED << cwpc, raised, db, faultVars, restOfContent >>

\* Line 707: scrape_content puts the end-of-content sentinel and returns.
ContentSentinel ==
    /\ At("content", "sentinel")
    /\ Put(Sentinel)
    /\ Return
    /\ UNCHANGED << raised, db, faultVars, restOfContent >>

(***************************************************************************)
(* scraper.py: scrape_board (lines 469-607)                                *)
(***************************************************************************)
\* Mutant of BoardFetch: the traversal goes on to the sub-boards without
\* putting the board's moderators and record.
BoardFetch_NoRecord ==
    /\ At("board", "fetch")
    /\ Fetched("board", Top.id, 1)
    /\ stack' = WithTop([Top EXCEPT !.pc = "subs", !.i = 1])
    /\ NoPut
    /\ UNCHANGED << cwpc, raised, db, restOfContent >>

\* Lines 484-511: fetch the board page, read the navigation tree.
BoardFetch ==
    /\ At("board", "fetch")
    /\ Fetched("board", Top.id, 1)
    /\ stack' = WithTop([Top EXCEPT !.pc = "mods", !.i = 1])
    /\ NoPut
    /\ UNCHANGED << cwpc, raised, db, restOfContent >>

\* Lines 513-532: one Moderator record per listed moderator.
BoardModeratorsStep ==
    /\ At("board", "mods")
    /\ LET mods == BoardModerators(Top.id) IN
       IF Top.i <= Len(mods)
       THEN /\ Put([type |-> "moderator", user_id |-> mods[Top.i],
                    board_id |-> Top.id])
            /\ stack' = WithTop([Top EXCEPT !.i = @ + 1])
       ELSE /\ NoPut
            /\ stack' = WithTop([Top EXCEPT !.pc = "board"])
    /\ UNCHANGED << cwpc, raised, db, faultVars, restOfContent >>

BoardRecord(b) ==
    [type |-> "board", id |-> b, category_id |-> NavCategory(b),
     parent_id |-> NavParent(b), password_protected |-> PasswordProtected(b)]

\* Lines 534-560: the Board record.
BoardPut ==
    /\ At("board", "board")
    /\ Put(BoardRecord(Top.id))
    /\ stack' = WithTop([Top EXCEPT !.pc = "subs", !.i = 1])
    /\ UNCHANGED << cwpc, raised, db, faultVars, restOfContent >>

\* Lines 563-573: scrape_board for each sub-board.
BoardSubBoards ==
    /\ At("board", "subs")
    /\ LET subs == SubBoards(Top.id) IN
       IF Top.i <= Len(subs)
       THEN stack' = Append(WithTop([Top EXCEPT !.i = @ + 1]),
                            Frame("board", subs[Top.i], "fetch"))
       ELSE stack' = WithTop([Top EXCEPT !.pc = "threads", !.i = 1, !.pg = 1])
    /\ NoPut
    /\ UNCHANGED << cwpc, raised, db, faultVars, restOfContent >>

\* Lines 576-590: scrape_thread for each thread of the listing page.
BoardThreads ==
    /\ At("board", "threads")
    /\ ThreadPages(Top.id) # <<>>
    /\ LET threads == ThreadPages(Top.id)[Top.pg] IN
       IF Top.i <= Len(threads)
       THEN stack' = Append(WithTop([Top EXCEPT !.i = @ + 1]),
                            Frame("thread", threads[Top.i], "fetch"))
       ELSE stack' = WithTop([Top EXCEPT !.pc = "next"])
    /\ NoPut
    /\ UNCHANGED << cwpc, raised, db, faultVars, restOfContent >>

\* Line 578: the page has no thread container; scrape_board returns.
BoardNoThreads ==
    /\ At("board", "threads")
    /\ ThreadPages(Top.id) = <<>>
    /\ Return
    /\ NoPut
    /\ UNCHANGED << raised, db, faultVars, restOfContent >>

\* Mutant of BoardNext: the thread listing is never continued.
BoardNext_AlwaysStops(ctl) == "stop"

\* Lines 596-600: the listing stops when the next control's <li> has the
\* class state-disabled; else next_btn.find("a")["href"] is read, which
\* raises KeyError when the <a> carries no href.
BoardNext(ctl) ==
    IF ctl.disabled THEN "stop" ELSE IF ctl.link THEN "follow" ELSE "raise"

\* Lines 592-607: stop at a disabled next control, else fetch the next page.
BoardNextPage ==
    /\ At("board", "next")
    /\ LET n == Len(ThreadPages(Top.id))
           next == BoardNext(PageControl("board", Top.pg, n)) IN
       CASE next = "stop" ->
              /\ Return
              /\ UNCHANGED << raised, faultVars >>
         [] next = "follow" ->
              /\ Fetched("board", Top.id, FollowPage(Top.pg, n))
              /\ stack' = WithTop([Top EXCEPT !.pc = "threads", !.i = 1,
                                              !.pg = FollowPage(Top.pg, n)])
              /\ UNCHANGED << cwpc, raised >>
         [] OTHER ->
              /\ Raise
              /\ ParseFails("board_next", Top.id)
    /\ NoPut
    /\ UNCHANGED << db, restOfContent >>

(***************************************************************************)
(* scraper.py: scrape_thread (lines 309-466) and scrape_poll (258-306)     *)
(***************************************************************************)
\* Line 327: fetch the first page of the thread.
ThreadFetch ==
    /\ At("thread", "fetch")
    /\ Fetched("thread", Top.id, 1)
    /\ stack' = WithTop([Top EXCEPT !.pc = "meta"])
    /\ NoPut
    /\ UNCHANGED << cwpc, raised, db, restOfContent >>

\* Lines 362-365: for a guest creator, source.select() returns a list, and
\* the call of .find on that list raises AttributeError.
GuestCreatorRaises(t) == CreatedBy(t) = 0

\* Lines 332-365: the metadata is read.
ThreadMeta ==
    /\ At("thread", "meta")
    /\ IF GuestCreatorRaises(Top.id)
       THEN Raise
       ELSE /\ stack' = WithTop([Top EXCEPT
                                   !.pc = IF IsPoll(Top.id) THEN "poll"
                                          ELSE "thread"])
            /\ UNCHANGED << cwpc, raised >>
    /\ NoPut
    /\ UNCHANGED << db, faultVars, restOfContent >>

\* Lines 341-347: no metadata script tag; the error is logged and
\* re.search(expr, None) raises TypeError.
ThreadMetaMissing ==
    /\ At("thread", "meta")
    /\ Raise
    /\ env_failed' = TRUE
    /\ failed_at' = IF failed_at[1] = "none" THEN <<"thread", Top.id>> ELSE failed_at
    /\ UNCHANGED fetches
    /\ NoPut
    /\ UNCHANGED << db, restOfContent >>

\* Mutant of PollPut: the options follow without the Poll record.
PollPut_Missing ==
    /\ At("thread", "poll")
    /\ NoPut
    /\ stack' = WithTop([Top EXCEPT !.pc = "options", !.i = 1])
    /\ UNCHANGED << cwpc, raised, db, faultVars, restOfContent >>

\* scrape_poll, lines 262-269: the Poll record.
PollPut ==
    /\ At("thread", "poll")
    /\ Put([type |-> "poll", id |-> Top.id])
    /\ stack' = WithTop([Top EXCEPT !.pc = "options", !.i = 1])
    /\ UNCHANGED << cwpc, raised, db, faultVars, restOfContent >>

\* scrape_poll, lines 274-293: one PollOption record per option.
PollOptionsStep ==
    /\ At("thread", "options")
    /\ LET opts == PollOptions(Top.id) IN
       IF Top.i <= Len(opts)
       THEN /\ Put([type |-> "poll_option", id |-> opts[Top.i],
                    poll_id |-> Top.id])
            /\ stack' = WithTop([Top EXCEPT !.i = @ + 1])
       ELSE /\ NoPut
            /\ stack' = WithTop([Top EXCEPT !.pc = "voters", !.i = 1])
    /\ UNCHANGED << cwpc, raised, db, faultVars, restOfContent >>

\* scrape_poll, lines 296-306: one PollVoter record per voter.
PollVotersStep ==
    /\ At("thread", "voters")
    /\ LET voters == PollVoters(Top.id) IN
       IF Top.i <= Len(voters)
       THEN /\ Put([type |-> "poll_voter", poll_id |-> Top.id,
                    user_id |-> voters[Top.i]])
            /\ stack' = WithTop([Top EXCEPT !.i = @ + 1])
       ELSE /\ NoPut
            /\ stack' = WithTop([Top EXCEPT !.pc = "thread"])
    /\ UNCHANGED << cwpc, raised, db, faultVars, restOfContent >>

ThreadRecord(t) ==
    [type |-> "thread", id |-> t, board_id |-> ThreadBoard(t),
     user_id |-> CreatedBy(t)]

\* Lines 384-400: the Thread record.
ThreadPut ==
    /\ At("thread", "thread")
    /\ Put(ThreadRecord(Top.id))
    /\ stack' = WithTop([Top EXCEPT !.pc = "while", !.cont = 1, !.rem = TRUE])
    /\ UNCHANGED << cwpc, raised, db, faultVars, restOfContent >>

\* Lines 403-404: while pages_remaining, take the posts of post_container.
ThreadWhile ==
    /\ At("thread", "while")
    /\ IF Top.rem
       THEN /\ stack' = WithTop([Top EXCEPT !.pc = "for", !.pg = Top.cont,
                                            !.i = 1])
            /\ UNCHANGED cwpc
       ELSE Return
    /\ NoPut
    /\ UNCHANGED << raised, db, faultVars, restOfContent >>

\* The store after the author of post p is resolved (lines 415-422), and the
\* user id the post gets.
Author(store, p) ==
    IF PostGuest(p) # ""
    THEN LET g == manager_insert_guest(store, PostGuest(p)) IN
         [db |-> g.db, user_id |-> g.id]
    ELSE [db |-> store, user_id |-> PostUser(p)]

PostRecord(t, p, user_id) ==
    [type |-> "post", id |-> p, thread_id |-> t, user_id |-> user_id]

\* Lines 460-463: as in scrape_board, the class state-disabled stops the
\* listing, and a control that is not disabled must carry an href.
ThreadNext(ctl) ==
    IF ctl.disabled THEN "stop" ELSE IF ctl.link THEN "follow" ELSE "raise"

\* Lines 406-461, one turn of the for loop over the posts taken at line 404:
\* the post is put, then (inside the loop body) the next control of the
\* current post_container is read.
ThreadPost ==
    /\ At("thread", "for")
    /\ LET posts == PagePosts(Top.id, Top.pg) IN
       IF Top.i <= Len(posts)
       THEN LET a == Author(db, posts[Top.i]) IN
            /\ db' = a.db
            /\ Put(PostRecord(Top.id, posts[Top.i], a.user_id))
            /\ LET next == ThreadNext(PageControl("thread", Top.cont,
                                                   Len(Layout(Top.id)))) IN
               CASE next = "stop" ->
                      /\ stack' = WithTop([Top EXCEPT !.rem = FALSE,
                                                      !.i = @ + 1])
                      /\ UNCHANGED << cwpc, raised, faultVars >>
                 [] next = "follow" ->
                      /\ stack' = WithTop([Top EXCEPT !.pc = "nextpage"])
                      /\ UNCHANGED << cwpc, raised, faultVars >>
                 [] OTHER ->
                      /\ Raise
                      /\ ParseFails("thread_next", Top.id)
       ELSE /\ NoPut
            /\ db' = db
            /\ stack' = WithTop([Top EXCEPT !.pc = "while"])
            /\ UNCHANGED << cwpc, raised, faultVars >>
    /\ UNCHANGED restOfContent

\* Lines 463-466: fetch the next page; it becomes post_container while the
\* for loop goes on over the posts already taken.
ThreadNextPage ==
    /\ At("thread", "nextpage")
    /\ LET next == FollowPage(Top.cont, Len(Layout(Top.id))) IN
       /\ Fetched("thread", Top.id, next)
       /\ stack' = WithTop([Top EXCEPT !.pc = "for", !.cont = next,
                                       !.i = @ + 1])
    /\ NoPut
    /\ UNCHANGED << cwpc, raised, db, restOfContent >>

\* A page fetch of the content traversal fails (get_source or driver.get
\* raises, or an element the parse needs is missing).
ContentPageError ==
    /\ Running
    /\ cwpc = "run"
    /\ stack # <<>>
    /\ \/ Top.pc \in {"load", "fetch", "nextpage"}
       \/ /\ Top.fn = "board"
          /\ Top.pc = "next"
          /\ Top.pg < Len(ThreadPages(Top.id))
    /\ Raise
    /\ env_failed' = TRUE
    /\ failed_at' = IF failed_at[1] = "none" THEN <<Top.fn, Top.id>> ELSE failed_at
    /\ UNCHANGED fetches
    /\ NoPut
    /\ UNCHANGED << db, restOfContent >>

(***************************************************************************)
(* core.py: _task_wrapper (lines 37-43) and the event loop                 *)
(***************************************************************************)
QueueName(task) == IF task = "users" THEN UsersQueueName(target) ELSE "content"

TaskPc(task) == IF task = "users" THEN upc ELSE cwpc

\* Lines 39-40: the user sentinel, for queue_name "both" or "user".
WrapperUserSentinel(task) ==
    /\ Running
    /\ TaskPc(task) = "wrap_user"
    /\ IF QueueName(task) \in {"both", "user"}
       THEN user_queue' = Append(user_queue, Sentinel)
       ELSE user_queue' = user_queue
    /\ IF task = "users"
       THEN upc' = "wrap_content" /\ cwpc' = cwpc
       ELSE cwpc' = "wrap_content" /\ upc' = upc
    /\ NoPut
    /\ UNCHANGED << upage, member_hrefs, ppc, put_users, downloads, stack >>
    /\ UNCHANGED << inputVars, consumerVars, faultVars, loop, raised, db >>

\* Lines 42-43: the content sentinel, for queue_name "both" or "content".
WrapperContentSentinel(task) ==
    /\ Running
    /\ TaskPc(task) = "wrap_content"
    /\ IF QueueName(task) \in {"both", "content"}
       THEN Put(Sentinel)
       ELSE NoPut
    /\ IF task = "users"
       THEN upc' = "done" /\ cwpc' = cwpc
       ELSE cwpc' = "done" /\ upc' = upc
    /\ UNCHANGED << upage, member_hrefs, ppc, put_users, downloads, stack >>
    /\ UNCHANGED << inputVars, consumerVars, faultVars, loop, raised >>
    /\ UNCHANGED << user_queue, db >>

\* Lines 172-173: an exception of a task passes through asyncio.gather to
\* run_until_complete, which stops the loop; the other tasks are not resumed.
LoopStop ==
    /\ Running
    /\ raised
    /\ loop' = "stopped"
    /\ UNCHANGED << raised, user_queue, content_queue, db >>
    /\ UNCHANGED << inputVars, consumerVars, usersVars, contentVars, faultVars >>

Consumer == RunStart \/ RunUsers \/ RunContent \/ RunShutdown

UsersTask ==
    \/ MembersPage
    \/ MembersPageError
    \/ CreateTasks
    \/ WaitTasks
    \/ SingleUserEnds
    \/ \E m \in Members :
         \/ ProfileFetch(m)
         \/ ProfileError(m)
         \/ ProfilePut(m)
         \/ ProfileAvatar(m)
         \/ AvatarError(m)
         \/ ProfileInsert(m)

ContentTask ==
    \/ ContentLoad
    \/ ScrapeSmileys
    \/ ScrapeShoutbox
    \/ ScrapeCategory
    \/ ScrapeCategoryBoards
    \/ ContentSentinel
    \/ BoardFetch
    \/ BoardModeratorsStep
    \/ BoardPut
    \/ BoardSubBoards
    \/ BoardThreads
    \/ BoardNoThreads
    \/ BoardNextPage
    \/ ThreadFetch
    \/ ThreadMeta
    \/ ThreadMetaMissing
    \/ PollPut
    \/ PollOptionsStep
    \/ PollVotersStep
    \/ ThreadPut
    \/ ThreadWhile
    \/ ThreadPost
    \/ ThreadNextPage
    \/ ContentPageError

Wrapper ==
    \E task \in {"users", "content"} :
        \/ WrapperUserSentinel(task)
        \/ WrapperContentSentinel(task)

Next == Consumer \/ UsersTask \/ ContentTask \/ Wrapper \/ LoopStop

Spec == Init /\ [][Next]_vars

\* The event loop runs a task that can take a step.
FairSpec == Spec /\ WF_vars(Next)

(***************************************************************************)
(* A second run of run_scraper on the same site and the same store         *)
(***************************************************************************)
\* asyncio.gather has completed: the consumer and every task have returned.
RunComplete ==
    /\ Running
    /\ ~raised
    /\ cpc = "done"
    /\ upc \in {"none", "done"}
    /\ cwpc \in {"none", "done"}

\* run_scraper is called again with the same URL: Database(db_path) opens
\* the file the first run wrote (core.py lines 90-91), everything else is
\* built anew.
Restart ==
    /\ RunComplete
    /\ ~env_failed
    /\ first_run = <<>>
    /\ first_run' = << [db |-> db, downloads |-> downloads] >>
    /\ user_queue' = <<>>
    /\ content_queue' = <<>>
    /\ cpc' = "start"
    /\ all_users_added' = FALSE
    /\ session_closed' = 0
    /\ driver_quit' = FALSE
    /\ upc' = IF target \in {"home", "members"} THEN "list"
              ELSE IF target = "user" THEN "single" ELSE "none"
    /\ upage' = 1
    /\ member_hrefs' = <<>>
    /\ ppc' = [m \in Members |->
                 IF target = "user" /\ m = 1 THEN "fetch" ELSE "idle"]
    /\ cwpc' = IF HasContentTask(target) THEN "run" ELSE "none"
    /\ stack' = FirstFrame(target)
    /\ sent' = <<>>
    /\ put_users' = {}
    /\ calls' = <<>>
    /\ downloads' = [m \in Members |-> "none"]
    /\ fetches' = NoFetches
    /\ UNCHANGED << target, t1, listing, user_queue_set, loop, raised, db,
                    env_failed, failed_at, guest_log, last_insert, limiterVars, driver >>

\* The runs that are repeated: the whole site, with or without its users,
\* its users alone or a single profile, on listings that end as the site
\* renders them.
InitTwice ==
    /\ Init
    /\ target \in {"home", "home_skip", "members", "user"}
    /\ listing = [mpages |-> CanonicalMembers, last |-> EndControls]

NextTwice == Next \/ Restart

SpecTwice == InitTwice /\ [][NextTwice]_vars

(***************************************************************************)
(* The resolver driver: any sequence of ScraperManager.insert_guest and    *)
(* Database.insert_user calls on a store that starts empty.                *)
(***************************************************************************)
\* No run is in progress: the store is empty and the wrappers of the store
\* and of the manager are called directly.
IdleProgram ==
    /\ target = "none"
    /\ listing = [mpages |-> CanonicalMembers, last |-> EndControls]
    /\ fetches = NoFetches
    /\ t1 = [poll |-> FALSE, creator |-> 1, layout |-> CanonicalLayout]
    /\ loop = "stopped"
    /\ raised = FALSE
    /\ user_queue_set = FALSE
    /\ user_queue = <<>>
    /\ content_queue = <<>>
    /\ cpc = "start"
    /\ all_users_added = FALSE
    /\ session_closed = 0
    /\ driver_quit = FALSE
    /\ driver = Some("chrome")
    /\ upc = "none"
    /\ upage = 1
    /\ member_hrefs = <<>>
    /\ ppc = [m \in Members |-> "idle"]
    /\ cwpc = "none"
    /\ stack = <<>>
    /\ db = EmptyDb
    /\ sent = <<>>
    /\ put_users = {}
    /\ calls = <<>>
    /\ env_failed = FALSE
    /\ failed_at = <<"none", 0>>
    /\ guest_log = <<>>
    /\ last_insert = <<>>
    /\ downloads = [m \in Members |-> "none"]
    /\ first_run = <<>>

InitGuest == IdleProgram /\ DefaultLimiter

pipelineVars ==
    << target, t1, loop, raised, user_queue_set, user_queue, content_queue,
       cpc, all_users_added, session_closed, driver_quit, upc, upage,
       member_hrefs, ppc, cwpc, stack, sent, put_users, calls, env_failed,
       failed_at, last_insert, downloads, first_run, listing, fetches,
       limiterVars, driver >>

\* ScraperManager.insert_guest(name)
GuestCall(name) ==
    /\ Len(guest_log) < MaxCalls
    /\ LET g == manager_insert_guest(db, name) IN
       /\ db' = g.db
       /\ guest_log' = Append(guest_log,
                              [op |-> "insert_guest", name |-> name,
                               id |-> g.id, before |-> db["user"]])
    /\ UNCHANGED pipelineVars

\* Database.insert_user(user, update) for a registered user
UserCall(id, name, update) ==
    /\ Len(guest_log) < MaxCalls
    /\ db' = insert_row(db, "user", [id |-> id, name |-> name], update).db
    /\ guest_log' = Append(guest_log,
                           [op |-> "insert_user", name |-> name, id |-> id,
                            before |-> db["user"]])
    /\ UNCHANGED pipelineVars

NextGuest ==
    \/ \E name \in GuestNames : GuestCall(name)
    \/ \E id \in Members, name \in RegisteredNames, update \in BOOLEAN :
         UserCall(id, name, update)

SpecGuest == InitGuest /\ [][NextGuest]_vars

(***************************************************************************)
(* The store driver: any sequence of calls of the insert_user,             *)
(* insert_moderator and insert_poll_voter wrappers of Database.insert,     *)
(* with update set or not, on a store that starts empty.                   *)
(***************************************************************************)
\* The candidates the driver passes, per table (scraper.py lines 126-127:
\* the age is in the user dict only when the profile page shows it).
Candidates(tbl) ==
    CASE tbl = "user" -> [id : {1, 2}, name : RegisteredNames]
                           \cup [id : {1, 2}, name : RegisteredNames,
                                  age : {30}]
      [] tbl = "moderator" -> [user_id : {1, 2}, board_id : {1, 2}]
      [] tbl = "poll_voter" -> [poll_id : {1}, user_id : {1, 2}]

storeFrame ==
    << target, t1, loop, raised, user_queue_set, user_queue, content_queue,
       cpc, all_users_added, session_closed, driver_quit, upc, upage,
       member_hrefs, ppc, cwpc, stack, sent, put_users, calls, env_failed,
       failed_at, guest_log, downloads, first_run, listing, fetches,
       limiterVars, driver >>

\* insert_user(obj, update), insert_moderator(obj, update), ...
InsertCall(tbl, obj, update) ==
    /\ LET r == insert_row(db, tbl, obj, update) IN
       /\ db' = r.db
       /\ last_insert' = << [tbl |-> tbl, obj |-> obj, update |-> update,
                             before |-> db, inserted |-> r.inserted,
                             ret |-> r.ret] >>
    /\ UNCHANGED storeFrame

NextStore ==
    \E tbl \in {"user", "moderator", "poll_voter"} : \E obj \in Candidates(tbl), update \in BOOLEAN :
        InsertCall(tbl, obj, update)

SpecStore == InitGuest /\ [][NextStore]_vars

(***************************************************************************)
(* The image driver: any sequence of insert_image calls, for downloads     *)
(* that succeeded (a hash) or failed (none), on a store that starts empty. *)
(***************************************************************************)
ImageCandidates ==
    [id : {0}, url : {"a1", "a2"}, description : {"avatar"},
     md5_hash : {Null, "ha", "hb"}]

\* Database.insert_image(image_, update)
ImageCall(obj, update) ==
    /\ Cardinality(db["image"]) < MaxImages
    /\ InsertCall("image", obj, update)

NextImages ==
    \E obj \in ImageCandidates, update \in BOOLEAN : ImageCall(obj, update)

SpecImages == InitGuest /\ [][NextImages]_vars

(***************************************************************************)
(* The manager driver: a ScraperManager built with or without a browser    *)
(* driver and with or without a user queue, whose run() is fed by          *)
(* producers that put records and then the sentinel of their queue.        *)
(***************************************************************************)
InitManager ==
    /\ target = "none"
    /\ listing = [mpages |-> CanonicalMembers, last |-> EndControls]
    /\ fetches = NoFetches
    /\ t1 = [poll |-> FALSE, creator |-> 1, layout |-> CanonicalLayout]
    /\ loop = "running"
    /\ raised = FALSE
    /\ user_queue_set \in BOOLEAN
    /\ user_queue = <<>>
    /\ content_queue = <<>>
    /\ cpc = "start"
    /\ all_users_added = FALSE
    /\ session_closed = 0
    /\ driver_quit = FALSE
    /\ driver \in {None, Some("chrome")}
    /\ upc = IF user_queue_set THEN "feed" ELSE "none"
    /\ upage = 1
    /\ member_hrefs = <<>>
    /\ ppc = [m \in Members |-> "idle"]
    /\ cwpc = "feed"
    /\ stack = <<>>
    /\ db = EmptyDb
    /\ sent = <<>>
    /\ put_users = {}
    /\ calls = <<>>
    /\ env_failed = FALSE
    /\ failed_at = <<"none", 0>>
    /\ guest_log = <<>>
    /\ last_insert = <<>>
    /\ downloads = [m \in Members |-> "none"]
    /\ first_run = <<>>
    /\ DefaultLimiter

\* await manager.user_queue.put(user)
FeedUser(m) ==
    /\ Running
    /\ upc = "feed"
    /\ m \notin put_users
    /\ user_queue' = Append(user_queue,
                            [type |-> "user", id |-> m, name |-> UserName(m)])
    /\ put_users' = put_users \cup {m}
    /\ UNCHANGED << upc, upage, member_hrefs, ppc, downloads >>
    /\ UNCHANGED << inputVars, consumerVars, contentVars, faultVars >>
    /\ UNCHANGED << loop, raised, content_queue, db >>

\* await manager.user_queue.put(None)
FeedUserSentinel ==
    /\ Running
    /\ upc = "feed"
    /\ user_queue' = Append(user_queue, Sentinel)
    /\ upc' = "done"
    /\ UNCHANGED << upage, member_hrefs, ppc, put_users, downloads >>
    /\ UNCHANGED << inputVars, consumerVars, contentVars, faultVars >>
    /\ UNCHANGED << loop, raised, content_queue, db >>

\* await manager.content_queue.put(board)
FeedContent(b) ==
    /\ Running
    /\ cwpc = "feed"
    /\ Len(sent) < MaxFeed
    /\ Put(BoardRecord(b))
    /\ UNCHANGED << cwpc, stack >>
    /\ UNCHANGED << inputVars, consumerVars, usersVars, faultVars >>
    /\ UNCHANGED << loop, raised, user_queue, db >>

\* await manager.content_queue.put(None)
FeedContentSentinel ==
    /\ Running
    /\ cwpc = "feed"
    /\ Put(Sentinel)
    /\ cwpc' = "done"
    /\ UNCHANGED stack
    /\ UNCHANGED << inputVars, consumerVars, usersVars, faultVars >>
    /\ UNCHANGED << loop, raised, user_queue, db >>

NextManager ==
    \/ RunStart
    \/ RunUsers
    \/ RunContent
    \/ RunShutdown
    \/ \E m \in Members : FeedUser(m)
    \/ FeedUserSentinel
    \/ \E b \in {1, 2} : FeedContent(b)
    \/ FeedContentSentinel

SpecManager == InitManager /\ [][NextManager]_vars

(***************************************************************************)
(* scraper_manager.py: the rate limiter (_delay, get_source,               *)
(* download_image), called by up to two tasks at a time, for every         *)
(* combination of settings the constructor accepts (a threshold of zero    *)
(* left out: the remainder of line 98 is not defined for it).              *)
(***************************************************************************)
\* Python's truth value of a setting: None and 0 are false.
Truthy(x) == x # None /\ x[1] # 0

\* Mutant of manager_delay: the long delay falls on the counts that are a
\* multiple of the threshold.
manager_delay_OffByOne(count) ==
    IF ~Truthy(short_delay_time) /\ ~Truthy(long_delay_time)
    THEN [kind |-> "return", delay |-> None]
    ELSE LET delay ==
                 IF /\ request_threshold # None
                    /\ Truthy(long_delay_time)
                    /\ count % request_threshold[1] = 0
                 THEN long_delay_time
                 ELSE short_delay_time
         IN IF delay = None
            THEN [kind |-> "raise", delay |-> None]
            ELSE [kind |-> "sleep", delay |-> delay]

\* ScraperManager._delay, lines 91-104, for the request count it reads:
\* it returns at once, or sleeps for delay, or asyncio.sleep(None) raises
\* TypeError.
manager_delay(count) ==
    IF ~Truthy(short_delay_time) /\ ~Truthy(long_delay_time)
    THEN [kind |-> "return", delay |-> None]
    ELSE LET delay ==
                 IF /\ request_threshold # None
                    /\ Truthy(long_delay_time)
                    /\ count % request_threshold[1] = request_threshold[1] - 1
                 THEN long_delay_time
                 ELSE short_delay_time
         IN IF delay = None
            THEN [kind |-> "raise", delay |-> None]
            ELSE [kind |-> "sleep", delay |-> delay]

InitLimiter ==
    /\ IdleProgram
    /\ request_threshold \in {None, Some(2), Some(3)}
    /\ short_delay_time \in {None, Some(0), Some(1)}
    /\ long_delay_time \in {None, Some(0), Some(5)}
    /\ request_count = 0
    /\ rpc = [c \in Callers |-> Idle]
    /\ issued = <<>>

limiterFrame ==
    << target, t1, loop, raised, user_queue_set, user_queue, content_queue,
       cpc, all_users_added, session_closed, driver_quit, upc, upage,
       member_hrefs, ppc, cwpc, stack, db, sent, put_users, calls, env_failed,
       failed_at, guest_log, last_insert, downloads, first_run, listing,
       fetches, request_threshold, short_delay_time, long_delay_time,
       driver >>

\* The request of caller c is issued (the await of lines 120 and 138).
Issue(c, fn, onsite, seen, delay, count) ==
    /\ issued' = Append(issued, [fn |-> fn, onsite |-> onsite, seen |-> seen,
                                 delay |-> delay, count |-> count])
    /\ rpc' = [rpc EXCEPT ![c] = [Idle EXCEPT !.pc = "request", !.fn = fn]]

\* Lines 118-119 and 136-137 up to the first suspension: _delay returns
\* without a wait (then the count and the request follow at once), or the
\* caller is suspended in asyncio.sleep, or the sleep raises.
EnterDelay(c, fn) ==
    LET d == manager_delay(request_count) IN
    CASE d.kind = "return" ->
           /\ request_count' = request_count + 1
           /\ Issue(c, fn, TRUE, request_count, None, request_count + 1)
      [] d.kind = "sleep" ->
           /\ rpc' = [rpc EXCEPT ![c] = [pc |-> "sleep", fn |-> fn,
                                         seen |-> request_count,
                                         delay |-> d.delay]]
           /\ UNCHANGED << request_count, issued >>
      [] OTHER ->
           /\ rpc' = [rpc EXCEPT ![c] = [Idle EXCEPT !.pc = "raised", !.fn = fn]]
           /\ UNCHANGED << request_count, issued >>

\* ScraperManager.get_source(url), lines 136-138.
ManagerGetSource(c) ==
    /\ rpc[c].pc = "idle"
    /\ Len(issued) < MaxRequests
    /\ EnterDelay(c, "get_source")
    /\ UNCHANGED limiterFrame

\* ScraperManager.download_image(url), lines 117-120: only a url of
\* proboards.com passes through the delay and the count.
ManagerDownloadImage(c, onsite) ==
    /\ rpc[c].pc = "idle"
    /\ Len(issued) < MaxRequests
    /\ IF onsite
       THEN EnterDelay(c, "download_image")
       ELSE /\ Issue(c, "download_image", FALSE, request_count, None,
                     request_count)
            /\ UNCHANGED request_count
    /\ UNCHANGED limiterFrame

\* asyncio.sleep is over: lines 119 and 137 count the request, lines 120
\* and 138 issue it.
Wake(c) ==
    /\ rpc[c].pc = "sleep"
    /\ request_count' = request_count + 1
    /\ Issue(c, rpc[c].fn, TRUE, rpc[c].seen, rpc[c].delay, request_count + 1)
    /\ UNCHANGED limiterFrame

\* The response arrives and the wrapper returns to its caller.
Respond(c) ==
    /\ rpc[c].pc = "request"
    /\ rpc' = [rpc EXCEPT ![c] = Idle]
    /\ UNCHANGED << request_count, issued >>
    /\ UNCHANGED limiterFrame

NextLimiter ==
    \E c \in Callers :
        \/ ManagerGetSource(c)
        \/ \E onsite \in BOOLEAN : ManagerDownloadImage(c, onsite)
        \/ Wake(c)
        \/ Respond(c)

SpecLimiter == InitLimiter /\ [][NextLimiter]_vars

(***************************************************************************)
(* Claims                                                                  *)
(***************************************************************************)
GuestOps == {i \in DOMAIN guest_log : guest_log[i].op = "insert_guest"}

HasUser(store, id) == \E u \in store["user"] : u.id = id

\* The tables whose rows carry a user_id (thread, post, moderator,
\* poll_voter, shoutbox_post).
UserRefTables == {"thread", "post", "moderator", "poll_voter", "shoutbox_post"}

\* C1: with a user queue configured, the consumer makes no content insert
\* before it has popped the user sentinel, and every insert_user call it makes
\* precedes every content insert call.
C1_UsersBeforeContent ==
    user_queue_set =>
        /\ (\E i \in DOMAIN calls : calls[i] # "user") => all_users_added
        /\ \A i, j \in DOMAIN calls :
             (i < j /\ calls[i] # "user") => calls[j] # "user"

\* C1 witness: the consumer has inserted a user and then a content item.
C1_Witness ==
    /\ user_queue_set
    /\ \E i, j \in DOMAIN calls : calls[i] = "user" /\ calls[j] # "user"

Emitted == [i \in DOMAIN sent |-> <<sent[i].type, sent[i].id>>]

ExpectedPosts(t) ==
    LET posts == AllPosts(t, Len(Layout(t)))
    IN [i \in DOMAIN posts |-> <<"post", posts[i]>>]

\* C3: when scrape_thread has returned for a thread without a poll, it has put
\* exactly the Thread record and then every post of every page in page order;
\* for the pages [101,102],[103]: Thread(1), Post(101), Post(102), Post(103).
C3_Claim ==
    (target = "thread" /\ ~t1.poll /\ cwpc = "wrap_user") =>
        Emitted = << <<"thread", 1>> >> \o ExpectedPosts(1)

PollOf(item) == IF item.type = "poll" THEN item.id ELSE item.poll_id

\* C4: every Poll, PollOption and PollVoter record on the content channel is
\* preceded by the Thread record of its thread.
C4_Claim ==
    \A i \in DOMAIN sent :
        sent[i].type \in {"poll", "poll_option", "poll_voter"} =>
            \E j \in 1..(i - 1) :
                sent[j].type = "thread" /\ sent[j].id = PollOf(sent[i])

\* C5: in a run in which no fetch and no extraction fails, the consumer
\* eventually reaches Shutdown and completes (on a site whose last pages end
\* with a disabled next control that carries no link, for a URL of one of
\* the shapes run_scraper documents).
C5_Claim ==
    (target # "other" /\ listing.last = EndControls)
        => <>(env_failed \/ cpc = "done")

ContentTaskEnded == cwpc \in {"raised", "done"}

\* C6: when the page of thread 1 (or of board 1) failed, the content task
\* does not end without the records of the sibling that follows it: thread 2
\* in the listing of board 1, board 4 in the category.
C6_Claim ==
    /\ (failed_at = <<"thread", 1>> /\ target # "thread" /\ ContentTaskEnded)
           => \E i \in DOMAIN sent : sent[i] = ThreadRecord(2)
    /\ (failed_at = <<"board", 1>> /\ target \in {"home", "home_skip"}
          /\ ContentTaskEnded)
           => \E i \in DOMAIN sent : sent[i] = BoardRecord(4)

\* C7: when a page of the content traversal failed, the content task does not
\* end without the end-of-content sentinel on the content channel (so the
\* consumer can leave DrainContent).
C7_Claim ==
    (failed_at[1] \in {"board", "thread"} /\ ContentTaskEnded) =>
        \E i \in DOMAIN sent : sent[i] = Sentinel

NamedRows(store, name) == {r \in store["user"] : r.name = name}

\* The first two names resolved: -1, then -2 for the first different name.
FirstIds ==
    \A i \in GuestOps :
        /\ (\A k \in GuestOps : k >= i) => guest_log[i].id = -1
        /\ \A j \in GuestOps :
             ( /\ i < j
               /\ \A k \in GuestOps : k >= i
               /\ guest_log[j].name # guest_log[i].name
               /\ \A k \in GuestOps :
                    (i < k /\ k < j) => guest_log[k].name = guest_log[i].name )
             => guest_log[j].id = -2

SameIdTwice ==
    \A i, j \in GuestOps :
        guest_log[i].name = guest_log[j].name =>
            (guest_log[i].id = guest_log[j].id /\ guest_log[i].id < 0)

\* A second call for a name has just returned.
JustRepeated ==
    /\ Len(guest_log) \in GuestOps
    /\ \E i \in GuestOps :
         i < Len(guest_log) /\ guest_log[i].name = guest_log[Len(guest_log)].name

\* C8 as claimed: two calls for a name return the same negative id and leave
\* exactly one row with that name; the first two new names get -1 and -2.
C8_Claim ==
    /\ SameIdTwice
    /\ JustRepeated =>
         Cardinality(NamedRows(db, guest_log[Len(guest_log)].name)) = 1
    /\ FirstIds

\* C8 amended: ... and leave exactly one guest row (negative id) with that
\* name; the first two new names get -1 and -2.
C8_GuestIdStable ==
    /\ SameIdTwice
    /\ JustRepeated =>
         Cardinality({r \in NamedRows(db, guest_log[Len(guest_log)].name) :
                        r.id < 0}) = 1
    /\ FirstIds

\* C8 witness: a name was resolved twice and a second name got -2.
C8_Witness ==
    /\ JustRepeated
    /\ \E i \in GuestOps : guest_log[i].id = -2

\* C9: every id insert_guest returns is negative, distinct names get distinct
\* ids, an id allocated for a new name is not an id of the store, and a guest
\* with the display name of a registered user does not get that user's row.
C9_GuestIdsApart ==
    \A i \in GuestOps :
        LET e == guest_log[i] IN
        /\ e.id < 0
        /\ \A j \in GuestOps :
             guest_log[j].name # e.name => guest_log[j].id # e.id
        /\ (\A r \in e.before : ~(r.id < 0 /\ r.name = e.name))
               => \A r \in e.before : r.id # e.id
        /\ \A r \in e.before : (r.id > 0 /\ r.name = e.name) => r.id # e.id

\* C9 witness: a guest was resolved whose name a registered user of the store
\* has, after another guest.
C9_Witness ==
    \E i, j \in GuestOps :
        /\ i < j
        /\ guest_log[i].name # guest_log[j].name
        /\ \E r \in guest_log[j].before :
             r.id > 0 /\ r.name = guest_log[j].name

\* The posts of guests on the content channel.
GuestPosts ==
    {i \in DOMAIN sent : sent[i].type = "post" /\ PostGuest(sent[i].id) # ""}

FirstPut(type, id) ==
    LET S == {i \in DOMAIN sent : sent[i].type = type /\ sent[i].id = id}
    IN IF S = {} THEN 0 ELSE MinOf(S)

PutBefore(type, id, j) == FirstPut(type, id) # 0 /\ FirstPut(type, id) < j

\* C11: in a traversal that starts at a board or above, every Board record
\* of a sub-board is put after the Board record of its parent (so, for the
\* tree 1 -> 2 -> 3, board 1 before board 2 before board 3), and every Thread
\* record is put after the Board record of its board.
C11_BoardBeforeChildren ==
    target \in {"home", "home_skip", "board"} =>
        /\ \A j \in DOMAIN sent :
             /\ (sent[j].type = "board" /\ sent[j].parent_id # 0)
                    => PutBefore("board", sent[j].parent_id, j)
             /\ sent[j].type = "thread"
                    => PutBefore("board", sent[j].board_id, j)
        /\ FirstPut("board", 3) # 0
               => /\ PutBefore("board", 1, FirstPut("board", 2))
                  /\ PutBefore("board", 2, FirstPut("board", 3))

\* C11 witness: the tree 1 -> 2 -> 3 and a thread of board 1 have been put.
C11_Witness ==
    /\ FirstPut("board", 3) # 0
    /\ \E j \in DOMAIN sent : sent[j].type = "thread" /\ sent[j].board_id = 1

\* C12: every Moderator record on the content channel is preceded by the
\* Board record of its board.
C12_Claim ==
    \A j \in DOMAIN sent :
        sent[j].type = "moderator" => PutBefore("board", sent[j].board_id, j)

HasRow(tbl, id) == \E r \in db[tbl] : r.id = id

\* C13: every content row of the store finds the rows it refers to in the
\* store (rows are never deleted, so a row whose parent is missing was
\* inserted before its parent): Board.parent_id and Board.category_id,
\* Thread.board_id, Post.thread_id, Poll.id, PollOption.poll_id,
\* PollVoter.poll_id and Moderator.board_id.
C13_Claim ==
    /\ \A r \in db["board"] :
         /\ r.parent_id # 0 => HasRow("board", r.parent_id)
         /\ HasRow("category", r.category_id)
    /\ \A r \in db["thread"] : HasRow("board", r.board_id)
    /\ \A r \in db["post"] : HasRow("thread", r.thread_id)
    /\ \A r \in db["poll"] : HasRow("thread", r.id)
    /\ \A r \in db["poll_option"] : HasRow("poll", r.poll_id)
    /\ \A r \in db["poll_voter"] : HasRow("poll", r.poll_id)
    /\ \A r \in db["moderator"] : HasRow("board", r.board_id)

\* The natural key of a row: the columns its insert wrapper filters on.
KeyOf(tbl, r) == Filters(tbl, r)

\* C14: after any sequence of insert calls, with update set or not, the
\* store holds at most one row per natural key: per id for the tables keyed
\* by id, per pair for moderator, poll_voter and avatar.
C14_OneRowPerKey ==
    \A tbl \in Tables \ {"image"} : \A r1, r2 \in db[tbl] :
        KeyOf(tbl, r1) = KeyOf(tbl, r2) => r1 = r2

\* C14 witness: a user was inserted again with another name, update not set.
C14_Witness ==
    /\ last_insert # <<>>
    /\ last_insert[1].tbl = "user"
    /\ last_insert[1].inserted = 0
    /\ last_insert[1].ret # last_insert[1].obj

\* C15: Database.insert returns 1 and the candidate when no row matched, the
\* row then being in the store; 0 and the existing row when a row matched and
\* update is false, the store unchanged; 2 when a row matched and update is
\* true; and the returned record is the row now stored under the key.
C15_InsertResult ==
    last_insert # <<>> =>
        LET c == last_insert[1]
            key == Filters(c.tbl, c.obj)
            matched == Query(c.before, c.tbl, key)
        IN /\ matched = {} =>
                /\ c.inserted = 1
                /\ c.ret = c.obj
                /\ db = [c.before EXCEPT ![c.tbl] = @ \cup {c.obj}]
           /\ (matched # {} /\ ~c.update) =>
                /\ c.inserted = 0
                /\ c.ret \in matched
                /\ db = c.before
           /\ (matched # {} /\ c.update) => c.inserted = 2
           /\ Query(db, c.tbl, key) = {c.ret}

\* C15 witness: an update call has overwritten a user row whose stored name
\* differs from the candidate's.
C15_Witness ==
    /\ last_insert # <<>>
    /\ last_insert[1].tbl = "user"
    /\ last_insert[1].inserted = 2
    /\ \E r \in last_insert[1].before["user"] :
         r.id = last_insert[1].obj.id /\ r.name # last_insert[1].obj.name

InSecondRun == first_run # <<>>

\* C16 as claimed: the second run of the scrape inserts nothing: in every
\* state of the second run the store holds the rows it held when the first
\* run ended.
C16_Claim == InSecondRun => db = first_run[1].db

\* No avatar download of the second run has ended otherwise than in the first.
SameDownloads ==
    \A m \in Members :
        downloads[m] \in {"none", first_run[1].downloads[m]}

\* C16 amended: the second run inserts nothing as long as each image
\* download ends in it as it ended in the first run.
C16_SecondRunInsertsNothing ==
    (InSecondRun /\ SameDownloads) => db = first_run[1].db

\* C16 witness: a second run has completed, with guests, images and avatars
\* in the store, and its downloads ended as in the first run.
C16_Witness ==
    /\ InSecondRun
    /\ RunComplete
    /\ SameDownloads
    /\ \/ \E u \in db["user"] : u.id < 0
       \/ db["avatar"] # {}

(***************************************************************************)
(* Pagination                                                              *)
(***************************************************************************)
RECURSIVE Flatten(_, _)
Flatten(pages, k) ==
    IF k = 0 THEN <<>> ELSE Flatten(pages, k - 1) \o pages[k]

FirstPages(n) == [k \in 1..n |-> k]

\* scrape_users has left its listing loop (lines 236-240) without a failed
\* fetch.
MembersListed ==
    \/ upc \in {"spawn", "wait", "wrap_user", "wrap_content", "done"}
    \/ upc = "raised" /\ \E m \in Members : ppc[m] # "idle"

\* scrape_users has created its profile tasks (lines 245-250).
TasksCreated == MembersListed /\ upc # "spawn"

\* C17: on a member listing of N pages of which only the last has a next
\* control without link, scrape_users fetches the pages 1..N in order and
\* never more than N (the listing loop ends), collects the profile links of
\* the N pages and starts one profile task for each of them.
C17_MembersListing ==
    (target \in {"home", "members"} /\ ~listing.last.members.link) =>
        /\ Len(fetches.members) <= Len(MemberPages)
        /\ fetches.members = FirstPages(Len(fetches.members))
        /\ MembersListed =>
              /\ fetches.members = FirstPages(Len(MemberPages))
              /\ member_hrefs = Flatten(MemberPages, Len(MemberPages))
              /\ Len(member_hrefs) = Cardinality(Members)
        /\ ~TasksCreated => \A m \in Members : ppc[m] = "idle"
        /\ TasksCreated => \A m \in Members : ppc[m] # "idle"

\* Witness of C17: a listing of three pages was fetched in three fetches and
\* the three profile tasks are started.
C17_Witness ==
    /\ target = "members"
    /\ Len(MemberPages) = 3
    /\ ~listing.last.members.link
    /\ upc = "wait"
    /\ fetches.members = <<1, 2, 3>>
    /\ \A m \in {1, 2, 3} : ppc[m] = "fetch"

\* The listing pages of fn id that get_source has returned, in fetch order.
PagesOf(fn, id) ==
    LET idx == {i \in DOMAIN fetches.content :
                  fetches.content[i][1] = fn /\ fetches.content[i][2] = id}
        F[k \in 0..Len(fetches.content)] ==
            IF k = 0 THEN <<>>
            ELSE IF k \in idx THEN Append(F[k - 1], fetches.content[k][3])
            ELSE F[k - 1]
    IN F[Len(fetches.content)]

ThreadFetches(t) == PagesOf("thread", t)

\* C18: scrape_thread, started on a thread of one or two post pages whose
\* last page has a disabled next control, never fetches a page twice and
\* eventually ends (it returns or raises), whatever the number of posts on
\* each page, zero included.
C18_Claim ==
    (target = "thread" /\ listing.last.thread.disabled) =>
        /\ [](ThreadFetches(1) = FirstPages(Len(ThreadFetches(1))))
        /\ <>(cwpc # "run")

\* C19: whatever the next control of a last page holds (a link or none,
\* marked disabled or not), none of the three listing traversals raises at
\* the control and none fetches a page it has already fetched.
C19_Claim ==
    /\ failed_at[1] \notin {"board_next", "thread_next"}
    /\ \A i, j \in DOMAIN fetches.members :
          i # j => fetches.members[i] # fetches.members[j]

\* The threads scrape_thread was called for and whose first page was
\* fetched (line 327), in call order.
ThreadCalls ==
    LET idx == {i \in DOMAIN fetches.content :
                  fetches.content[i][1] = "thread" /\ fetches.content[i][3] = 1}
        F[k \in 0..Len(fetches.content)] ==
            IF k = 0 THEN <<>>
            ELSE IF k \in idx THEN Append(F[k - 1], fetches.content[k][2])
            ELSE F[k - 1]
    IN F[Len(fetches.content)]

IsPrefix(a, b) == Len(a) <= Len(b) /\ a = SubSeq(b, 1, Len(a))

\* The boards below board b in the sub-board tree (its depth is two).
BoardsBelow(b) ==
    Range(SubBoards(b)) \cup UNION {Range(SubBoards(c)) : c \in Range(SubBoards(b))}

\* scrape_board(b) has fetched its page and has returned.
BoardReturned(b) ==
    /\ PagesOf("board", b) # <<>>
    /\ \A i \in DOMAIN stack : ~(stack[i].fn = "board" /\ stack[i].id = b)

\* C20: on board 1, whose thread listing has two pages ended by a disabled
\* next control, scrape_board fetches the listing pages in order and none
\* twice, calls scrape_thread for the listed threads in listing order and
\* once each, has fetched all pages and called all threads when it returns,
\* and has fetched every board below board 1 before its first thread.
C20_BoardListing ==
    (target \in {"home", "home_skip", "board"} /\ listing.last.board.disabled) =>
        /\ IsPrefix(PagesOf("board", 1), FirstPages(Len(ThreadPages(1))))
        /\ IsPrefix(ThreadCalls, Flatten(ThreadPages(1), Len(ThreadPages(1))))
        /\ BoardReturned(1) =>
              /\ PagesOf("board", 1) = FirstPages(Len(ThreadPages(1)))
              /\ ThreadCalls = Flatten(ThreadPages(1), Len(ThreadPages(1)))
        /\ \A j \in DOMAIN fetches.content :
              fetches.content[j][1] = "thread" =>
                  \A b \in BoardsBelow(1) :
                      /\ \E i \in 1..(j - 1) : fetches.content[i] = <<"board", b, 1>>
                      /\ BoardReturned(b)

\* Witness of C20: scrape_board(1) has returned after two listing pages and
\* one scrape_thread call for each of the two threads.
C20_Witness ==
    /\ target = "board"
    /\ listing.last.board.disabled
    /\ BoardReturned(1)
    /\ PagesOf("board", 1) = <<1, 2>>
    /\ ThreadCalls = <<1, 2>>
    /\ PagesOf("board", 2) = <<1>>
    /\ PagesOf("board", 3) = <<1>>

(***************************************************************************)
(* The rate limiter                                                        *)
(***************************************************************************)
AllSet ==
    request_threshold # None /\ short_delay_time # None /\ long_delay_time # None

\* The time a wait lasts: none for a delay step that returns at once.
Amount(d) == IF d = None THEN 0 ELSE d[1]

\* The number of rate-limited requests among the first i that were issued.
LimitedUpTo(i) == Cardinality({j \in 1..i : issued[j].onsite})

\* Every rate-limited request is counted once, when it is issued: the count
\* goes up by one per request, after the wait, and never down.
CountedOnce ==
    /\ request_count = LimitedUpTo(Len(issued))
    /\ \A i \in DOMAIN issued : issued[i].count = LimitedUpTo(i)
    /\ \A c \in Callers : rpc[c].pc = "sleep" => rpc[c].seen <= request_count

\* The waits that were chosen so far, each with the count it was chosen for.
Waits ==
    {[seen |-> issued[i].seen, delay |-> issued[i].delay] :
        i \in {j \in DOMAIN issued : issued[j].onsite}}
    \cup {[seen |-> rpc[c].seen, delay |-> rpc[c].delay] :
             c \in {k \in Callers : rpc[k].pc = "sleep"}}

\* C21: with the three settings not None, every rate-limited request waits
\* long_delay_time when the count it reads, modulo request_threshold, is
\* request_threshold - 1, and short_delay_time otherwise, and is counted
\* once, after the wait and before it is issued.
C21_Claim ==
    AllSet =>
        /\ CountedOnce
        /\ \A c \in Callers : rpc[c].pc # "raised"
        /\ \A w \in Waits :
              Amount(w.delay) =
                  IF w.seen % request_threshold[1] = request_threshold[1] - 1
                  THEN long_delay_time[1] ELSE short_delay_time[1]

\* C21 as amended: the same, with a long_delay_time of zero counting as no
\* long delay (every request then waits short_delay_time).
C21_DelayAndCount ==
    AllSet =>
        /\ CountedOnce
        /\ \A c \in Callers : rpc[c].pc # "raised"
        /\ \A w \in Waits :
              Amount(w.delay) =
                  IF /\ long_delay_time[1] # 0
                     /\ w.seen % request_threshold[1] = request_threshold[1] - 1
                  THEN long_delay_time[1] ELSE short_delay_time[1]

\* Witness of C21: with a threshold of 2 the first request has waited the
\* short delay, the second the long one and the third the short one.
C21_Witness ==
    /\ request_threshold = Some(2)
    /\ short_delay_time = Some(1)
    /\ long_delay_time = Some(5)
    /\ Len(issued) = 3
    /\ \A i \in 1..3 :
          /\ issued[i].onsite
          /\ issued[i].seen = i - 1
          /\ issued[i].count = i
          /\ issued[i].delay = IF i = 2 THEN Some(5) ELSE Some(1)

\* The profile pages the users task has fetched (in a run without a fault).
ProfilesFetched == {m \in Members : ppc[m] \notin {"idle", "fetch"}}

\* The avatar downloads from the site itself that the users task has issued.
SiteDownloads == {m \in Members : downloads[m] # "none" /\ AvatarOnSite(m)}

\* C22: at any point of a run on the members list or on one profile in
\* which nothing failed, request_count is the number of listing pages and
\* profile pages fetched plus the number of avatars downloaded from the
\* site itself.
C22_Claim ==
    (target \in {"members", "user"} /\ ~env_failed) =>
        request_count = Len(fetches.members) + Cardinality(ProfilesFetched)
                            + Cardinality(SiteDownloads)

AllNone ==
    request_threshold = None /\ short_delay_time = None /\ long_delay_time = None

\* C23: for every combination of None and not None of the three settings no
\* caller's delay step raises, and with all three None no caller ever
\* sleeps while every rate-limited request is still counted.
C23_Claim ==
    /\ \A c \in Callers : rpc[c].pc # "raised"
    /\ AllNone =>
          /\ \A c \in Callers : rpc[c].pc # "sleep"
          /\ \A i \in DOMAIN issued : issued[i].delay = None
          /\ CountedOnce

\* The rate-limited request that took the count to k.
Counted(k) == CHOOSE r \in Range(issued) : r.onsite /\ r.count = k

\* C24: with the three settings set and a long delay that is not zero, among
\* any request_threshold requests that are consecutive by counter value
\* exactly one has waited long_delay_time, whether the callers overlap or
\* not.
C24_Claim ==
    (AllSet /\ Truthy(long_delay_time)) =>
        \A k \in 1..request_count :
            k + request_threshold[1] - 1 <= request_count =>
                Cardinality({n \in k..(k + request_threshold[1] - 1) :
                               Counted(n).delay = long_delay_time}) = 1

(***************************************************************************)
(* Sentinels and the consumer                                              *)
(***************************************************************************)
SentinelsIn(q) == Cardinality({i \in DOMAIN q : q[i] = Sentinel})

\* The sentinels put on the user channel so far: the consumer pops one, the
\* first, and no item after it.
UserSentinelsPut ==
    SentinelsIn(user_queue) + (IF all_users_added THEN 1 ELSE 0)

NothingBehindSentinel(q) ==
    \A i, j \in DOMAIN q : (i < j /\ q[i] = Sentinel) => q[j] = Sentinel

\* C25: at most one sentinel is ever put on the user channel and at most one
\* on the content channel, exactly one once the task that feeds the channel
\* has ended normally, and no item follows a sentinel in either queue.
C25_Claim ==
    /\ UserSentinelsPut <= 1
    /\ SentinelsIn(sent) <= 1
    /\ upc = "done" => UserSentinelsPut = 1
    /\ (cwpc = "done" \/ (upc = "done" /\ UsersQueueName(target) = "both"))
           => SentinelsIn(sent) = 1
    /\ NothingBehindSentinel(user_queue)
    /\ NothingBehindSentinel(content_queue)

ConsumerInContent == cpc \in {"content", "shutdown", "done"}

\* C26: when no user queue is set the consumer is never in its users loop,
\* pops nothing from a user channel and never calls insert_user; when one
\* is set, the consumer is in or past its content loop only after it has
\* popped the user sentinel, and has called insert on content only then.
C26_UsersLoopOnlyIfSet ==
    /\ ~user_queue_set =>
          /\ cpc # "users"
          /\ ~all_users_added
          /\ user_queue = <<>>
          /\ \A i \in DOMAIN calls : calls[i] # "user"
    /\ user_queue_set =>
          /\ ConsumerInContent => all_users_added
          /\ ~all_users_added => \A i \in DOMAIN calls : calls[i] = "user"

\* Witness of C26: on a /board target the consumer, started without a user
\* queue, is in its content loop and has inserted a record.
C26_Witness ==
    /\ target = "board"
    /\ ~user_queue_set
    /\ cpc = "content"
    /\ calls # <<>>

(***************************************************************************)
(* Images and avatars                                                      *)
(***************************************************************************)
\* The store links user m to an Image row that has the url of m's avatar.
AvatarLinked(m) ==
    \E img \in db["image"] :
        /\ img.url = AvatarUrl(m)
        /\ \E a \in db["avatar"] : a.user_id = m /\ a.image_id = img.id

\* C27: no avatar download raises out of download_image; a download that
\* failed takes scrape_user on to its inserts, and once scrape_user has
\* returned the store holds an Image row with the avatar's url (a new one
\* without a hash, or the row another user's avatar of the same url made)
\* and an Avatar row that links the user to it.
C27_FailedDownloadRecorded ==
    \A m \in Members :
        /\ downloads[m] # "raised"
        /\ downloads[m] = "insert_url" =>
              /\ ppc[m] \in {"insert_url", "done"}
              /\ ppc[m] = "done" => AvatarLinked(m)

\* Witness of C27: the avatar download of member 2 failed, scrape_user has
\* returned, and the store holds an Image row for the url, without a hash,
\* and the Avatar row.
C27_Witness ==
    /\ 2 \in Members
    /\ downloads[2] = "insert_url"
    /\ ppc[2] = "done"
    /\ AvatarLinked(2)
    /\ \E img \in db["image"] : img.url = AvatarUrl(2) /\ img.md5_hash = Null

WithHash(store, h) == {r \in store["image"] : r.md5_hash = h}

WithUrl(store, u) == {r \in store["image"] : r.url = u}

\* C28: after any sequence of insert_image calls no two Image rows share a
\* hash that is not null; a call without a hash adds a row exactly when no
\* row has its url; a call with a hash adds a row exactly when no row has
\* that hash, whatever the urls, and otherwise returns the row of that hash.
C28_ImageDedup ==
    /\ \A r1, r2 \in db["image"] :
          (r1.md5_hash # Null /\ r1.md5_hash = r2.md5_hash) => r1 = r2
    /\ \A r1, r2 \in db["image"] : r1.id = r2.id => r1 = r2
    /\ (last_insert # <<>> /\ last_insert[1].tbl = "image") =>
          LET c == last_insert[1] IN
          /\ c.obj.md5_hash = Null =>
                (c.inserted = 1 <=> WithUrl(c.before, c.obj.url) = {})
          /\ c.obj.md5_hash # Null =>
                /\ c.inserted = 1 <=> WithHash(c.before, c.obj.md5_hash) = {}
                /\ c.ret.md5_hash = c.obj.md5_hash
          /\ c.inserted = 1 =>
                db["image"] = c.before["image"] \cup {c.ret}
          /\ c.inserted = 0 => db = c.before

\* Witness of C28: a downloaded image was matched by its hash to a row that
\* has another url, while a row without hash holds the candidate's url.
C28_Witness ==
    /\ last_insert # <<>>
    /\ last_insert[1].tbl = "image"
    /\ last_insert[1].obj.md5_hash # Null
    /\ last_insert[1].inserted = 0
    /\ last_insert[1].ret.url # last_insert[1].obj.url
    /\ \E r \in db["image"] :
          r.md5_hash = Null /\ r.url = last_insert[1].obj.url

(***************************************************************************)
(* Polls and profiles                                                      *)
(***************************************************************************)
\* The records of poll t on the content channel, in the order of their puts.
PollRecords(t) ==
    LET idx == {i \in DOMAIN sent :
                  /\ sent[i].type \in {"poll", "poll_option", "poll_voter"}
                  /\ PollOf(sent[i]) = t}
        F[k \in 0..Len(sent)] ==
            IF k = 0 THEN <<>>
            ELSE IF k \in idx
                 THEN Append(F[k - 1],
                             IF sent[k].type = "poll_voter"
                             THEN <<"poll_voter", sent[k].user_id>>
                             ELSE <<sent[k].type, sent[k].id>>)
            ELSE F[k - 1]
    IN F[Len(sent)]

\* What scrape_poll puts for thread t: the Poll, its options, its voters.
ExpectedPoll(t) ==
    << <<"poll", t>> >>
    \o [i \in DOMAIN PollOptions(t) |-> <<"poll_option", PollOptions(t)[i]>>]
    \o [i \in DOMAIN PollVoters(t) |-> <<"poll_voter", PollVoters(t)[i]>>]

\* scrape_poll has returned for the thread on top of the stack.
PollScraped(t) ==
    \E i \in DOMAIN stack :
        /\ stack[i].fn = "thread"
        /\ stack[i].id = t
        /\ stack[i].pc \in {"thread", "while", "for", "nextpage"}

\* C29: the records scrape_poll has put for thread 1 are, at any time, a
\* prefix of: the Poll record, every PollOption in page order, every
\* PollVoter in page order; and all of them once scrape_poll has returned.
C29_PollOrder ==
    /\ IsPrefix(PollRecords(1), ExpectedPoll(1))
    /\ (IsPoll(1) /\ PollScraped(1)) => PollRecords(1) = ExpectedPoll(1)

\* Witness of C29: scrape_poll has returned for thread 1 and the channel
\* has got the Poll, two PollOption records and one PollVoter record.
C29_Witness ==
    /\ IsPoll(1)
    /\ PollScraped(1)
    /\ PollRecords(1) =
          << <<"poll", 1>>, <<"poll_option", 11>>, <<"poll_option", 12>>,
             <<"poll_voter", 1>> >>

\* The User records of member m waiting on the user queue.
UsersQueued(m) ==
    {i \in DOMAIN user_queue :
        user_queue[i] # Sentinel /\ user_queue[i].id = m}

\* The User records the consumer has taken off the user queue.
UsersTaken == {i \in DOMAIN calls : calls[i] = "user"}

\* The profile task of member m is past line 188.
PastPut(m) ==
    \/ ppc[m] \in {"avatar", "insert_hash", "insert_url", "done"}
    \/ downloads[m] # "none"

\* C30: a profile task that is past its put, or whose avatar download has
\* been attempted, has put its User record; no member has two User records
\* on the channel, and the records put (waiting or taken) are one per
\* member that has put, whatever became of the avatar.
C30_UserBeforeAvatar ==
    /\ \A m \in DOMAIN ppc : PastPut(m) => m \in put_users
    /\ \A m \in DOMAIN ppc : Cardinality(UsersQueued(m)) <= 1
    /\ Cardinality(UNION {UsersQueued(m) : m \in DOMAIN ppc})
         + Cardinality(UsersTaken) = Cardinality(put_users)

\* Witness of C30: a profile task failed at the avatar, after its put, and
\* the consumer has stored its User record.
C30_Witness ==
    \E m \in DOMAIN ppc :
        /\ ppc[m] = "failed"
        /\ m \in put_users
        /\ HasUser(db, m)
        /\ UsersTaken # {}

(***************************************************************************)
(* Update mode                                                             *)
(***************************************************************************)
\* The last call of the store driver was an update that found its key.
UpdatedExisting ==
    /\ last_insert # <<>>
    /\ last_insert[1].update
    /\ Query(last_insert[1].before, last_insert[1].tbl,
             Filters(last_insert[1].tbl, last_insert[1].obj)) # {}

\* The row stored under the key of the last call, before and after it.
RowBefore ==
    CHOOSE r \in Query(last_insert[1].before, last_insert[1].tbl,
                       Filters(last_insert[1].tbl, last_insert[1].obj)) : TRUE

RowAfter ==
    CHOOSE r \in Query(db, last_insert[1].tbl,
                       Filters(last_insert[1].tbl, last_insert[1].obj)) : TRUE

\* C31 as claimed: after an update that found its key, the stored row equals
\* the candidate in every field, the fields the candidate leaves unset
\* included.
C31_Claim == UpdatedExisting => RowAfter = last_insert[1].obj

\* C31 amended: after an update that found its key, the stored row has the
\* candidate's value in every field the candidate sets and its former value
\* in every other field.
C31_UpdateOverwritesSetFields ==
    UpdatedExisting =>
        LET obj == last_insert[1].obj IN
        /\ DOMAIN RowAfter = DOMAIN RowBefore \cup DOMAIN obj
        /\ \A k \in DOMAIN obj : RowAfter[k] = obj[k]
        /\ \A k \in DOMAIN RowBefore \ DOMAIN obj : RowAfter[k] = RowBefore[k]

\* Witness of C31: an update without an age has changed the name of a user
\* row that had an age, and the age is still there.
C31_Witness ==
    /\ UpdatedExisting
    /\ last_insert[1].tbl = "user"
    /\ "age" \in DOMAIN RowBefore \ DOMAIN last_insert[1].obj
    /\ RowBefore.name # last_insert[1].obj.name
    /\ RowAfter.name = last_insert[1].obj.name
    /\ RowAfter.age = RowBefore.age

C33_Claim == \A a \in db["avatar"] : HasUser(db, a.user_id)

\* The profile pages that have been requested.
ProfilesRequested == {m \in DOMAIN ppc : ppc[m] \notin {"idle", "fetch"}}

\* C34: once ScraperManager.run has closed the session, no step fetches a
\* page (members listing, profile, board or thread) or downloads an image,
\* and no profile task or frame of the content traversal moves.
C34_NoRequestAfterClose ==
    [][session_closed > 0 =>
         /\ fetches' = fetches
         /\ downloads' = downloads
         /\ ProfilesRequested' = ProfilesRequested
         /\ ppc' = ppc
         /\ stack' = stack]_vars

\* Witness of C34: the session is closed after a run that fetched the
\* members listing, a board and a thread and downloaded an avatar.
C34_Witness ==
    /\ session_closed = 1
    /\ fetches.members # <<>>
    /\ fetches.content # <<>>
    /\ \E m \in DOMAIN downloads : downloads[m] # "none"

(***************************************************************************)
(* The tasks run_scraper schedules                                         *)
(***************************************************************************)
\* The wrapped task is among the tasks given to asyncio.gather.
Scheduled(task) ==
    IF task = "users" THEN HasUsersTask(target) ELSE HasContentTask(target)

\* C35 as claimed: whenever the consumer is in its users loop, a task that
\* puts the user sentinel was scheduled, and whenever it is in its content
\* loop, a task that puts the content sentinel was scheduled.
C35_Claim ==
    /\ cpc = "users" =>
          \E task \in {"users", "content"} :
              Scheduled(task) /\ QueueName(task) \in {"both", "user"}
    /\ cpc = "content" =>
          \E task \in {"users", "content"} :
              Scheduled(task) /\ QueueName(task) \in {"both", "content"}

(***************************************************************************)
(* A profile task that raises                                              *)
(***************************************************************************)
\* A profile task of scrape_users has raised.
ProfileFailed ==
    /\ target \in {"home", "members"}
    /\ \E m \in Range(member_hrefs) : ppc[m] = "failed"

\* scrape_users is past asyncio.wait (line 252).
PastWait == upc \in {"raised", "wrap_user", "wrap_content", "done"}

\* After a profile task raised, the others have run to their end with their
\* User records put, and the user sentinel was put.
OthersComplete ==
    (ProfileFailed /\ PastWait) =>
        /\ \A m \in Range(member_hrefs) :
             /\ ppc[m] \in {"done", "failed"}
             /\ ppc[m] = "done" => m \in put_users
        /\ UserSentinelsPut >= 1

\* C36 as claimed: when a profile task raised, the other profile tasks run
\* to their end and put their User records, the user sentinel is put after
\* them, and the users task does not raise (the run is not aborted).
C36_Claim ==
    /\ OthersComplete
    /\ ProfileFailed => upc # "raised"

(***************************************************************************)
(* Shutdown                                                                *)
(***************************************************************************)
\* The consumer has popped the content sentinel.
ContentSentinelPopped ==
    /\ \E i \in DOMAIN sent : sent[i] = Sentinel
    /\ \A i \in DOMAIN content_queue : content_queue[i] # Sentinel

\* C37 as claimed: the session is closed at most once and only after the
\* content sentinel was popped, and the consumer ends its shutdown without
\* an error, with the session closed, whether a driver was set or not.
C37_Claim ==
    /\ session_closed <= 1
    /\ session_closed = 1 => ContentSentinelPopped
    /\ cpc # "raised"
    /\ cpc = "done" => session_closed = 1

(***************************************************************************)
(* The guest ids                                                           *)
(***************************************************************************)
\* The names insert_guest has resolved up to call i of the log.
NamesUpTo(i) == {guest_log[j].name : j \in {j \in GuestOps : j <= i}}

\* The first call of the log that resolved the name of call i.
FirstCallOf(i) ==
    CHOOSE j \in GuestOps :
        /\ guest_log[j].name = guest_log[i].name
        /\ \A k \in GuestOps : guest_log[k].name = guest_log[i].name => j <= k

\* C38: after any sequence of insert_guest calls on a store that started
\* without guests, the guest ids of the store are -1, ..., -k for the k
\* names resolved so far, and each call returned minus the rank of its name
\* in the order of first appearance.
C38_GuestIdsContiguous ==
    /\ {r.id : r \in GuestQuery(db)} =
          {0 - j : j \in 1..Cardinality(NamesUpTo(Len(guest_log)))}
    /\ \A i \in GuestOps :
          guest_log[i].id = 0 - Cardinality(NamesUpTo(FirstCallOf(i)))

\* Witness of C38: three names were resolved, the first of them twice, among
\* inserts of registered users.
C38_Witness ==
    /\ Cardinality(NamesUpTo(Len(guest_log))) = 3
    /\ \E i, j \in GuestOps : i < j /\ FirstCallOf(j) = i
    /\ {r.id : r \in GuestQuery(db)} = {-1, -2, -3}

====
